---- MODULE Spec2Model ----
(***************************************************************************)
(* A model of the tail package: the tail engine (src/tail.go), the native  *)
(* watcher (src/watch/inotify.go over src/watch/inotify_tracker.go) and    *)
(* its ChangeSet, a consumer of Tail.Lines, a caller of Stop, and the file *)
(* system the engine reads.                                                *)
(***************************************************************************)
EXTENDS Integers, Sequences, FiniteSets, TLC

\* ------------------------------------------------------------------ bounds
\* Number of file-system operations the environment performs in one run.
MaxEnvOps == 2
\* Longest content a file written by the environment reaches.
MaxFileLen == 4
\* Number of writes, and longest content, of a run that only appends.
MaxWrites == 4
MaxWriteLen == 5
\* Largest size of a LeakyBucket, longest time between two calls on it, and
\* largest amount poured at once.
MaxSize == 2
MaxElapsed == 2
MaxPour == 2
\* ticks of the NotifyInterval ticker the engine receives
MaxTicks == 2

\* ------------------------------------------------------------------- bytes
NL == "\n"
Bytes == {"a", "b", NL}
\* The writes of the environment: one byte, or one whole line.
Chunks == {<<"a">>, <<NL>>, <<"a", NL>>}
\* The lines of the tests.
HelloLine == <<"h", "e", "l", "l", "o">>
WorldLine == <<"w", "o", "r", "l", "d">>
MoreLine == <<"m", "o", "r", "e">>
DataLine == <<"d", "a", "t", "a">>
Hello == HelloLine \o <<NL>> \o WorldLine \o <<NL>>
MoreData == MoreLine \o <<NL>> \o DataLine \o <<NL>>

\* ----------------------------------------------------------------- helpers
Max(a, b) == IF a >= b THEN a ELSE b
Min(a, b) == IF a <= b THEN a ELSE b
\* s without its first n elements.
Drop(s, n) == SubSeq(s, n + 1, Len(s))
Take(s, n) == SubSeq(s, 1, n)
IsPrefix(p, s) == Len(p) <= Len(s) /\ Take(s, Len(p)) = p
HasNL(s) == \E i \in 1..Len(s) : s[i] = NL
\* Index of the first line terminator of s (s holds one).
FirstNL(s) == CHOOSE i \in 1..Len(s) : s[i] = NL /\ \A j \in 1..(i - 1) : s[j] # NL
\* Index of the last line terminator of s, 0 when it holds none.
LastNL(s) == IF HasNL(s) THEN CHOOSE i \in 1..Len(s) : s[i] = NL /\ \A j \in (i + 1)..Len(s) : s[j] # NL ELSE 0
RECURSIVE StripNL(_)
StripNL(s) == IF s = <<>> THEN <<>> ELSE IF s[1] = NL THEN StripNL(Tail(s)) ELSE <<s[1]>> \o StripNL(Tail(s))

\* --------------------------------------------------------------- variables
VARIABLES
  cfg,          \* tail.Config: Follow, ReOpen, MustExist, Poll, Location, MaxLineSize,
                \* RateLimiter (the capacity of the LeakyBucket, 0 for nil),
                \* NotifyInterval (0 for unset)
  mem,          \* a ratelimiter.Memory and its buckets: [store, fill, size, ret,
                \* put, evicted], ret the last call made on them and what it
                \* returned, put the bucket last set for each name, evicted the
                \* names GarbageCollect evicted since
  level,        \* the level of the LeakyBucket
  pauseLen,     \* the size of the file when the last Pour was rejected
  inodes,       \* the files ever created: inodes[i] = [content, mtime]
  path,         \* the inode linked at Tail.Filename, 0 when the path is missing
  envOps,       \* file-system operations performed so far
  kwFile,       \* inode the native facility watches for Filename, 0 for none
  kwDir,        \* whether the parent directory is watched for creations
  evq,          \* fsnotify's Event channel: native events not yet read by run
  chans,        \* InotifyTracker.chans: path -> event channel id, 0 for nil
  done,         \* InotifyTracker.done: path -> done channel id, 0 for nil
  closedCh,     \* event channels that were closed
  closedDone,   \* done channels that were closed
  nextCh,       \* next fresh channel id
  run,          \* InotifyTracker.run: [pc, ch, done, ev]
  watchers,     \* the ChangeEvents goroutines, one per ChangeSet
  changesets,   \* the FileChanges created so far
  fwSize,       \* FileWatcher.Size
  asyncDel,     \* ChangeSets with a `go changes.NotifyDeleted()` not yet run
  pc,           \* where tailFileSync stands
  file,         \* tail.file: [ino, pos, cuts], ino = 0 for nil; cuts holds the
                \* sizes the file was truncated to since it was opened
  rbuf,         \* tail.reader: the bytes buffered and not yet returned
  changes,      \* tail.changes: index into changesets, 0 for nil
  reOpenNotify, \* tail.reOpenNotify: "idle" never fires, "armed" fires once
  offset,       \* tailFileSync's offset, taken by Tell before each read
  line,         \* the bytes the last readLine returned
  reopenRet,    \* the caller reopen returns to: "first" or "wait"
  bueCh,        \* BlockUntilExists' events channel
  bueRet,       \* what BlockUntilExists returns once its deferred call ran
  stSize,       \* size in the FileInfo waitForChanges hands to ChangeEvents
  dying,        \* tomb: Dying() is closed
  reason,       \* tomb: "alive", "nil" or an error
  dead,         \* tomb: Dead() is closed
  out,          \* the records received from Tail.Lines, in order
  closeCount,   \* how many times close(tail.Lines) ran
  lateSend,     \* a send on tail.Lines happened after it was closed
  staleBuf,     \* the reader holds bytes read past a truncation the engine was notified of
  gen,          \* number of successful opens of Filename by the engine
  stopPc        \* the caller of Stop: "idle", "waiting", "returned"

fsVars == <<inodes, path, envOps>>
kVars == <<kwFile, kwDir, evq>>
trkVars == <<chans, done, closedCh, closedDone, nextCh, run>>
wVars == <<watchers, changesets, fwSize, asyncDel>>
engVars == <<pc, file, rbuf, changes, reOpenNotify, offset, line, reopenRet, bueCh, bueRet, stSize>>
tombVars == <<dying, reason, dead>>
outVars == <<out, closeCount, lateSend, staleBuf>>
vars == <<cfg, mem, level, pauseLen, fsVars, kVars, trkVars, wVars, engVars, tombVars, outVars, gen, stopPc>>

\* ------------------------------------------------------------- file system
NewInode(c) == [content |-> c, mtime |-> 1]
NoFile == [ino |-> 0, pos |-> 0, cuts |-> {}]
\* os.OpenFile on the file now at Filename.
Open == [ino |-> path, pos |-> 0, cuts |-> {}]
Content(i) == inodes[i].content
\* The kernel queues an event unless it equals the last one still queued.
Enqueue(q, ev) == IF q # <<>> /\ q[Len(q)] = ev THEN q ELSE Append(q, ev)
WriteInode(i, c) == [inodes EXCEPT ![i] = [content |-> c, mtime |-> @.mtime + 1]]

\* A writer appends chunk c to the file at Filename, within maxOps operations
\* and maxLen bytes.
Write(c, maxOps, maxLen) ==
  /\ pc # "dead"
  /\ path # 0 /\ envOps < maxOps
  /\ Len(Content(path)) + Len(c) <= maxLen
  /\ inodes' = WriteInode(path, Content(path) \o c)
  /\ envOps' = envOps + 1
  /\ evq' = IF kwFile = path THEN Enqueue(evq, "modify") ELSE evq
  /\ UNCHANGED <<cfg, mem, level, pauseLen, path, kwFile, kwDir, trkVars, wVars, engVars, tombVars, outVars, gen, stopPc>>

EnvAppend(c) == Write(c, MaxEnvOps, MaxFileLen)

\* A run of small writes and nothing else.
SmallWrite(c) == Write(c, MaxWrites, MaxWriteLen)

\* A writer truncates the file at Filename to m bytes.
EnvTruncate(m) ==
  /\ pc # "dead"
  /\ path # 0 /\ envOps < MaxEnvOps
  /\ m < Len(Content(path))
  /\ inodes' = WriteInode(path, Take(Content(path), m))
  /\ envOps' = envOps + 1
  /\ evq' = IF kwFile = path THEN Enqueue(evq, "modify") ELSE evq
  /\ file' = IF file.ino = path THEN [file EXCEPT !.cuts = @ \cup {m}] ELSE file
  /\ UNCHANGED <<cfg, mem, level, pauseLen, path, kwFile, kwDir, trkVars, wVars, pc, rbuf, changes, reOpenNotify, offset,
                 line, reopenRet, bueCh, bueRet, stSize, tombVars, outVars, gen, stopPc>>

\* The file at Filename is deleted or renamed away; its watch goes with it.
EnvRemove ==
  /\ pc # "dead"
  /\ path # 0 /\ envOps < MaxEnvOps
  /\ path' = 0
  /\ envOps' = envOps + 1
  /\ evq' = IF kwFile = path THEN Enqueue(evq, "delete") ELSE evq
  /\ kwFile' = IF kwFile = path THEN 0 ELSE kwFile
  /\ UNCHANGED <<cfg, mem, level, pauseLen, inodes, kwDir, trkVars, wVars, engVars, tombVars, outVars, gen, stopPc>>

\* A new file with content c is created at Filename.
EnvCreate(c) ==
  /\ pc # "dead"
  /\ path = 0 /\ envOps < MaxEnvOps
  /\ inodes' = Append(inodes, NewInode(c))
  /\ path' = Len(inodes) + 1
  /\ envOps' = envOps + 1
  /\ evq' = IF kwDir THEN Enqueue(evq, "create") ELSE evq
  /\ UNCHANGED <<cfg, mem, level, pauseLen, kwFile, kwDir, trkVars, wVars, engVars, tombVars, outVars, gen, stopPc>>

\* ------------------------------------------------------------ ratelimiter
\* The names and the buckets of the tests: one LeakyBucket made for each
\* name.
Names == {"bucketOne", "bucketTwo", "bucketThree"}
Buckets == 1..Cardinality(Names)
\* getTestBuckets: the bucket made for each name.
getTestBuckets ==
  [nm \in Names |-> CASE nm = "bucketOne" -> 1 [] nm = "bucketTwo" -> 2 [] nm = "bucketThree" -> 3]

\* What a call returned: the bucket (0 for nil), the error, or the answer
\* of Pour, with the arguments of the call.
Ret(op, name, b, e, n, ok, err) ==
  [op |-> op, name |-> name, b |-> b, e |-> e, n |-> n, ok |-> ok, err |-> err]

\* NewMemory, and the buckets of getTestBuckets, of size one and empty.
NewMemory ==
  [store |-> [nm \in Names |-> 0], fill |-> [b \in Buckets |-> 0],
   size |-> [b \in Buckets |-> 1], ret |-> Ret("none", "", 0, 0, 0, TRUE, "nil"),
   put |-> [nm \in Names |-> 0], evicted |-> {}]

\* ------------------------------------------------------------------- tomb
\* A Kill that records the cause it is given, whatever was recorded.
KillOverwrites(r) ==
  /\ reason' = r
  /\ dying' = TRUE
  /\ UNCHANGED dead

\* Kill records the cause unless an error is recorded already, and closes
\* Dying.
Kill(r) ==
  /\ reason' = IF reason \in {"alive", "nil"} THEN r ELSE reason
  /\ dying' = TRUE
  /\ UNCHANGED dead

\* ---------------------------------------------------------------- ChangeSet
\* born records which open of the file the set was made for, sent how many
\* Deleted and Truncated signals were put in the set, closes how many times
\* it was closed.
NewFileChanges ==
  [mod |-> FALSE, del |-> FALSE, trunc |-> FALSE, closed |-> FALSE, born |-> 0,
   sent |-> [del |-> 0, trunc |-> 0], closes |-> 0]
\* A notification is pending until the engine receives it; a second one while
\* the first is pending is dropped, and so is any after the set was closed.
Notify(cs, i, sig) ==
  IF cs[i].closed \/ cs[i][sig]
    THEN cs
    ELSE IF sig = "mod"
      THEN [cs EXCEPT ![i].mod = TRUE]
      ELSE [cs EXCEPT ![i][sig] = TRUE, ![i].sent[sig] = @ + 1]
NotifyModified(cs, i) == Notify(cs, i, "mod")
NotifyDeleted(cs, i) == Notify(cs, i, "del")
NotifyTruncated(cs, i) == Notify(cs, i, "trunc")
CloseChanges(cs, i) == [cs EXCEPT ![i].closed = TRUE, ![i].closes = @ + 1]

\* ------------------------------------------------------- InotifyTracker
Paths == {"file", "dir"}
RunSelect == [pc |-> "select", ch |-> 0, done |-> 0, ev |-> "none"]

\* A watchFlags that makes new channels for the path on every call.
watchFlagsRenews(fname) ==
  /\ run.pc = "select"
  /\ chans' = [chans EXCEPT ![fname] = nextCh]
  /\ done' = [done EXCEPT ![fname] = nextCh]
  /\ nextCh' = nextCh + 1
  /\ UNCHANGED <<closedCh, closedDone, run>>

\* watchFlags, run by the tracker goroutine for a request on shared.watch:
\* the per-path channels are made when the path has none.
watchFlags(fname) ==
  /\ run.pc = "select"
  /\ IF chans[fname] = 0
       THEN /\ chans' = [chans EXCEPT ![fname] = nextCh]
            /\ done' = [done EXCEPT ![fname] = nextCh]
            /\ nextCh' = nextCh + 1
       ELSE UNCHANGED <<chans, done, nextCh>>
  /\ UNCHANGED <<closedCh, closedDone, run>>

\* A RemoveWatch that deletes the path's done channel without closing it.
RemoveWatchKeepsDone(fname) ==
  /\ done' = [done EXCEPT ![fname] = 0]
  /\ UNCHANGED <<chans, closedCh, closedDone, nextCh, run>>

\* RemoveWatch, first half, run by the caller under the mutex: the path's
\* done channel is deleted and closed.
RemoveWatchDone(fname) ==
  /\ done' = [done EXCEPT ![fname] = 0]
  /\ closedDone' = IF done[fname] # 0 THEN closedDone \cup {done[fname]} ELSE closedDone
  /\ UNCHANGED <<chans, closedCh, nextCh, run>>

\* removeWatch, run by the tracker goroutine for a request on shared.remove:
\* the native watch is removed, the path's channel deleted and closed.
removeWatch(fname) ==
  /\ run.pc = "select"
  /\ chans' = [chans EXCEPT ![fname] = 0]
  /\ closedCh' = IF chans[fname] # 0 THEN closedCh \cup {chans[fname]} ELSE closedCh
  /\ kwFile' = IF chans[fname] # 0 /\ fname = "file" THEN 0 ELSE kwFile
  /\ kwDir' = IF chans[fname] # 0 /\ fname = "dir" THEN FALSE ELSE kwDir
  /\ UNCHANGED <<done, closedDone, nextCh, run, evq>>

\* run reads one native event and sendEvent looks its channels up; every
\* event of the model is named Filename.
TrkTakeEvent ==
  /\ run.pc = "select" /\ evq # <<>>
  /\ evq' = Tail(evq)
  /\ run' = IF chans["file"] # 0 /\ done["file"] # 0
              THEN [pc |-> "send", ch |-> chans["file"], done |-> done["file"], ev |-> Head(evq)]
              ELSE run
  /\ UNCHANGED <<cfg, mem, level, pauseLen, fsVars, kwFile, kwDir, chans, done, closedCh, closedDone, nextCh,
                 wVars, engVars, tombVars, outVars, gen, stopPc>>

\* sendEvent's select: the done channel was closed, the delivery is abandoned.
TrkAbandon ==
  /\ run.pc = "send" /\ run.done \in closedDone
  /\ run' = RunSelect
  /\ UNCHANGED <<cfg, mem, level, pauseLen, fsVars, kVars, chans, done, closedCh, closedDone, nextCh,
                 wVars, engVars, tombVars, outVars, gen, stopPc>>

\* ------------------------------------- InotifyFileWatcher.ChangeEvents
NewWatcher(kind, orig, size) ==
  [kind |-> kind, pc |-> IF kind = "inotify" THEN "events" ELSE "sample",
   ch |-> 0, prevSize |-> size, prevMod |-> 0, orig |-> orig, ev |-> "none"]

\* events := shared.Events(fw.Filename)
WatcherEvents(i) ==
  /\ watchers[i].kind = "inotify" /\ watchers[i].pc = "events"
  /\ watchers' = [watchers EXCEPT ![i].ch = chans["file"], ![i].pc = "select", ![i].prevSize = fwSize]
  /\ UNCHANGED <<cfg, mem, level, pauseLen, fsVars, kVars, trkVars, changesets, fwSize, asyncDel, engVars, tombVars, outVars, gen, stopPc>>

\* The select of the goroutine receives the event run is sending.
WatcherReceive(i) ==
  /\ watchers[i].kind = "inotify" /\ watchers[i].pc = "select"
  /\ run.pc = "send" /\ run.ch = watchers[i].ch
  /\ watchers' = [watchers EXCEPT ![i].pc = "handle", ![i].ev = run.ev]
  /\ run' = RunSelect
  /\ UNCHANGED <<cfg, mem, level, pauseLen, fsVars, kVars, chans, done, closedCh, closedDone, nextCh,
                 changesets, fwSize, asyncDel, engVars, tombVars, outVars, gen, stopPc>>

\* The select of the goroutine finds its channel closed, or the tomb dying:
\* it returns, and the deferred changes.Close() runs.
WatcherReturn(i) ==
  /\ watchers[i].kind = "inotify" /\ watchers[i].pc = "select"
  /\ watchers[i].ch \in closedCh \/ dying
  /\ changesets' = CloseChanges(changesets, i)
  /\ watchers' = [watchers EXCEPT ![i].pc = "rm1"]
  /\ UNCHANGED <<cfg, mem, level, pauseLen, fsVars, kVars, trkVars, fwSize, asyncDel, engVars, tombVars, outVars, gen, stopPc>>

\* A goroutine whose NotifyModified waits until the engine has received the
\* previous Modified.
WatcherHandleBlocks(i) ==
  /\ watchers[i].kind = "inotify" /\ watchers[i].pc = "handle"
  /\ ~changesets[i].mod
  /\ LET w == watchers[i] IN
     IF w.ev = "delete" \/ (w.ev = "modify" /\ path = 0)
       THEN /\ changesets' = CloseChanges(NotifyDeleted(changesets, i), i)
            /\ watchers' = [watchers EXCEPT ![i].pc = "rm1"]
            /\ UNCHANGED fwSize
       ELSE IF w.ev = "modify"
         THEN LET size == Len(Content(path)) IN
              /\ fwSize' = size
              /\ changesets' = IF w.prevSize > 0 /\ w.prevSize > size
                                 THEN NotifyTruncated(changesets, i)
                                 ELSE NotifyModified(changesets, i)
              /\ watchers' = [watchers EXCEPT ![i].pc = "select", ![i].prevSize = size]
         ELSE /\ watchers' = [watchers EXCEPT ![i].pc = "select", ![i].prevSize = fwSize]
              /\ UNCHANGED <<changesets, fwSize>>
  /\ UNCHANGED <<cfg, mem, level, pauseLen, fsVars, kVars, trkVars, asyncDel, engVars, tombVars, outVars, gen, stopPc>>

\* The switch on the event received; on a deletion the goroutine returns
\* and the deferred changes.Close() runs.
WatcherHandle(i) ==
  /\ watchers[i].kind = "inotify" /\ watchers[i].pc = "handle"
  /\ LET w == watchers[i] IN
     IF w.ev = "delete" \/ (w.ev = "modify" /\ path = 0)
       THEN /\ changesets' = CloseChanges(NotifyDeleted(changesets, i), i)
            /\ watchers' = [watchers EXCEPT ![i].pc = "rm1"]
            /\ UNCHANGED fwSize
       ELSE IF w.ev = "modify"
         THEN LET size == Len(Content(path)) IN
              /\ fwSize' = size
              /\ changesets' = IF w.prevSize > 0 /\ w.prevSize > size
                                 THEN NotifyTruncated(changesets, i)
                                 ELSE NotifyModified(changesets, i)
              /\ watchers' = [watchers EXCEPT ![i].pc = "select", ![i].prevSize = size]
         ELSE /\ watchers' = [watchers EXCEPT ![i].pc = "select", ![i].prevSize = fwSize]
              /\ UNCHANGED <<changesets, fwSize>>
  /\ UNCHANGED <<cfg, mem, level, pauseLen, fsVars, kVars, trkVars, asyncDel, engVars, tombVars, outVars, gen, stopPc>>

\* Deferred shared.RemoveWatch(fw.Filename), first half.
WatcherRemoveDone(i) ==
  /\ watchers[i].kind = "inotify" /\ watchers[i].pc = "rm1"
  /\ RemoveWatchDone("file")
  /\ watchers' = [watchers EXCEPT ![i].pc = "rm2"]
  /\ UNCHANGED <<cfg, mem, level, pauseLen, fsVars, kVars, changesets, fwSize, asyncDel, engVars, tombVars, outVars, gen, stopPc>>

\* Deferred shared.RemoveWatch(fw.Filename), the request on shared.remove.
WatcherRemove(i) ==
  /\ watchers[i].kind = "inotify" /\ watchers[i].pc = "rm2"
  /\ removeWatch("file")
  /\ watchers' = [watchers EXCEPT ![i].pc = "exit"]
  /\ UNCHANGED <<cfg, mem, level, pauseLen, fsVars, changesets, fwSize, asyncDel, engVars, tombVars, outVars, gen, stopPc>>

\* The goroutine of `go changes.NotifyDeleted()` runs.
AsyncNotifyDeleted(i) ==
  /\ i \in asyncDel
  /\ changesets' = NotifyDeleted(changesets, i)
  /\ asyncDel' = asyncDel \ {i}
  /\ UNCHANGED <<cfg, mem, level, pauseLen, fsVars, kVars, trkVars, watchers, fwSize, engVars, tombVars, outVars, gen, stopPc>>

\* ------------------------------------------------------------ tail engine
NewLineNotify == "NewLine"
NewFileNotify == "NewFile"
TickerNotify == "Ticker"
Line(type, text, off) ==
  [type |-> type, text |-> text, offset |-> off, err |-> FALSE, gen |-> gen,
   stale |-> type = NewLineNotify /\ staleBuf]

\* tail.Lines <- rec: the consumer receives the record.
Send(rec) ==
  /\ out' = Append(out, rec)
  /\ lateSend' = (lateSend \/ closeCount > 0)
  /\ UNCHANGED <<closeCount, staleBuf>>

\* Tell: the position of the file less the bytes still buffered.
Tell == IF file.ino = 0 THEN 0 ELSE file.pos - Len(rbuf)

\* tail.reader is not nil: the first openReader ran, which tailFileSync
\* calls after the seek and just before it sends the NewFile record.
ReaderSet == pc = "newfile" \/ out # <<>>

\* openReader: the capacity of the bufio.Reader.
MinReadBufferSize == 16
DefaultBufSize == 4096
BufSize ==
  IF cfg.MaxLineSize > 0 THEN Max(cfg.MaxLineSize + 2, MinReadBufferSize) ELSE DefaultBufSize

\* The bytes one read of the open file at its position brings into the free
\* space of the reader's buffer.
Avail ==
  IF file.pos >= Len(Content(file.ino))
    THEN <<>>
    ELSE Take(Drop(Content(file.ino), file.pos),
              Min(Len(Content(file.ino)) - file.pos, BufSize - (Len(rbuf) % BufSize)))

\* The open file was truncated below the position the engine reads at.
StaleHandle == \E m \in file.cuts : m < file.pos

\* A Truncated notification is pending in the ChangeSet the engine holds.
ToldTruncated == changes # 0 /\ changesets[changes].trunc

\* The position file.Seek(Location.Offset, Location.Whence) leaves.
SeekPos == IF cfg.Location = "end" THEN Len(Content(file.ino)) ELSE 0

\* The bottom of the read loop: the engine returns when the tomb is dying.
LoopBottom == IF dying THEN "close" ELSE "loop"

\* A reopen after which the configured location is sought again.
ReopenSeeksAgain == pc' = "seek" /\ UNCHANGED rbuf

\* What reopen's caller does with a nil error: tailFileSync seeks, and
\* waitForChanges makes a new reader and returns nil.
ReopenDone ==
  IF reopenRet = "first"
    THEN pc' = "seek" /\ UNCHANGED rbuf
    ELSE pc' = LoopBottom /\ rbuf' = <<>>

\* A TailFile that treats a missing file as if MustExist were unset: the
\* engine is started and waits for the file.
TailFileOpensLate ==
  /\ pc = "init"
  /\ IF cfg.ReOpen /\ ~cfg.Follow
       THEN pc' = "fatal" /\ UNCHANGED <<file, gen>>
       ELSE IF cfg.MustExist /\ path # 0
         THEN pc' = "start" /\ file' = Open /\ gen' = gen + 1
         ELSE pc' = "start" /\ UNCHANGED <<file, gen>>
  /\ UNCHANGED <<cfg, mem, level, pauseLen, fsVars, kVars, trkVars, wVars, rbuf, changes, reOpenNotify, offset, line,
                 reopenRet, bueCh, bueRet, stSize, tombVars, outVars, stopPc>>

\* A TailFile without the check of ReOpen against Follow.
TailFileUnchecked ==
  /\ pc = "init"
  /\ IF cfg.MustExist
       THEN IF path = 0
              THEN pc' = "failed" /\ UNCHANGED <<file, gen>>
              ELSE pc' = "start" /\ file' = Open /\ gen' = gen + 1
       ELSE pc' = "start" /\ UNCHANGED <<file, gen>>
  /\ UNCHANGED <<cfg, mem, level, pauseLen, fsVars, kVars, trkVars, wVars, rbuf, changes, reOpenNotify, offset, line,
                 reopenRet, bueCh, bueRet, stSize, tombVars, outVars, stopPc>>

\* TailFile: the configuration is checked, the file opened when it must
\* exist, and tailFileSync started.
TailFile ==
  /\ pc = "init"
  /\ IF cfg.ReOpen /\ ~cfg.Follow
       THEN pc' = "fatal" /\ UNCHANGED <<file, gen>>
       ELSE IF cfg.MustExist
         THEN IF path = 0
                THEN pc' = "failed" /\ UNCHANGED <<file, gen>>
                ELSE pc' = "start" /\ file' = Open /\ gen' = gen + 1
         ELSE pc' = "start" /\ UNCHANGED <<file, gen>>
  /\ UNCHANGED <<cfg, mem, level, pauseLen, fsVars, kVars, trkVars, wVars, rbuf, changes, reOpenNotify, offset, line,
                 reopenRet, bueCh, bueRet, stSize, tombVars, outVars, stopPc>>

\* tailFileSync up to the first open.
TailStart ==
  /\ pc = "start"
  /\ reOpenNotify' = "idle"
  /\ IF cfg.MustExist
       THEN pc' = "seek" /\ UNCHANGED reopenRet
       ELSE pc' = "open" /\ reopenRet' = "first"
  /\ UNCHANGED <<cfg, mem, level, pauseLen, fsVars, kVars, trkVars, wVars, file, rbuf, changes, offset, line,
                 bueCh, bueRet, stSize, tombVars, outVars, gen, stopPc>>

\* reopen: one turn of its loop, OpenFile on Filename.
ReopenOpen ==
  /\ pc = "open"
  /\ IF path # 0
       THEN /\ file' = Open
            /\ gen' = gen + 1
            /\ ReopenDone
       ELSE /\ file' = NoFile
            /\ pc' = IF cfg.Poll THEN "bue_poll" ELSE "bue_watch"
            /\ UNCHANGED <<gen, rbuf>>
  /\ UNCHANGED <<cfg, mem, level, pauseLen, fsVars, kVars, trkVars, wVars, changes, reOpenNotify, offset, line,
                 reopenRet, bueCh, bueRet, stSize, tombVars, outVars, stopPc>>

\* BlockUntilExists: shared.WatchFlags(dirname, FSN_CREATE).
BueWatch ==
  /\ pc = "bue_watch"
  /\ watchFlags("dir")
  /\ kwDir' = TRUE
  /\ pc' = "bue_stat"
  /\ UNCHANGED <<cfg, mem, level, pauseLen, fsVars, kwFile, evq, wVars, file, rbuf, changes, reOpenNotify, offset, line,
                 reopenRet, bueCh, bueRet, stSize, tombVars, outVars, gen, stopPc>>

\* BlockUntilExists: the check that the file was not created meanwhile.
BueStat ==
  /\ pc = "bue_stat"
  /\ IF path # 0
       THEN pc' = "bue_rm1" /\ bueRet' = "nil"
       ELSE pc' = "bue_events" /\ UNCHANGED bueRet
  /\ UNCHANGED <<cfg, mem, level, pauseLen, fsVars, kVars, trkVars, wVars, file, rbuf, changes, reOpenNotify, offset, line,
                 reopenRet, bueCh, stSize, tombVars, outVars, gen, stopPc>>

\* BlockUntilExists: events := shared.Events(fw.Filename).
BueEvents ==
  /\ pc = "bue_events"
  /\ bueCh' = chans["file"]
  /\ pc' = "bue_wait"
  /\ UNCHANGED <<cfg, mem, level, pauseLen, fsVars, kVars, trkVars, wVars, file, rbuf, changes, reOpenNotify, offset, line,
                 reopenRet, bueRet, stSize, tombVars, outVars, gen, stopPc>>

\* BlockUntilExists' select: an event named Filename is received.
BueReceive ==
  /\ pc = "bue_wait"
  /\ run.pc = "send" /\ run.ch = bueCh
  /\ run' = RunSelect
  /\ pc' = "bue_rm1" /\ bueRet' = "nil"
  /\ UNCHANGED <<cfg, mem, level, pauseLen, fsVars, kVars, chans, done, closedCh, closedDone, nextCh, wVars, file, rbuf,
                 changes, reOpenNotify, offset, line, reopenRet, bueCh, stSize, tombVars, outVars,
                 gen, stopPc>>

\* BlockUntilExists' select: the events channel is closed.
BueClosed ==
  /\ pc = "bue_wait"
  /\ bueCh \in closedCh
  /\ pc' = "bue_rm1" /\ bueRet' = "closed"
  /\ UNCHANGED <<cfg, mem, level, pauseLen, fsVars, kVars, trkVars, wVars, file, rbuf, changes, reOpenNotify, offset, line,
                 reopenRet, bueCh, stSize, tombVars, outVars, gen, stopPc>>

\* A BlockUntilExists whose select has no Dying case.
BueIgnoresDying ==
  /\ pc = "bue_wait" /\ dying
  /\ UNCHANGED vars

\* BlockUntilExists' select: the tomb is dying.
BueDying ==
  /\ pc = "bue_wait"
  /\ dying
  /\ pc' = "bue_rm1" /\ bueRet' = "dying"
  /\ UNCHANGED <<cfg, mem, level, pauseLen, fsVars, kVars, trkVars, wVars, file, rbuf, changes, reOpenNotify, offset, line,
                 reopenRet, bueCh, stSize, tombVars, outVars, gen, stopPc>>

\* BlockUntilExists' deferred shared.RemoveWatch(dirname), first half.
BueRemoveDone ==
  /\ pc = "bue_rm1"
  /\ RemoveWatchDone("dir")
  /\ pc' = "bue_rm2"
  /\ UNCHANGED <<cfg, mem, level, pauseLen, fsVars, kVars, wVars, file, rbuf, changes, reOpenNotify, offset, line,
                 reopenRet, bueCh, bueRet, stSize, tombVars, outVars, gen, stopPc>>

\* BlockUntilExists' deferred shared.RemoveWatch(dirname), the request on
\* shared.remove; then reopen acts on what BlockUntilExists returned.
BueRemove ==
  /\ pc = "bue_rm2"
  /\ removeWatch("dir")
  /\ IF bueRet = "nil"
       THEN pc' = "open" /\ UNCHANGED tombVars
       ELSE IF bueRet = "dying"
         THEN pc' = "close" /\ UNCHANGED tombVars
         ELSE pc' = "close" /\ Kill("Failed to detect creation")
  /\ UNCHANGED <<cfg, mem, level, pauseLen, fsVars, wVars, file, rbuf, changes, reOpenNotify, offset, line,
                 reopenRet, bueCh, bueRet, stSize, outVars, gen, stopPc>>

\* The seek to the configured location on the first open, and openReader.
TailSeek ==
  /\ pc = "seek"
  /\ file' = [file EXCEPT !.pos = SeekPos]
  /\ rbuf' = <<>>
  /\ pc' = "newfile"
  /\ UNCHANGED <<cfg, mem, level, pauseLen, fsVars, kVars, trkVars, wVars, changes, reOpenNotify, offset, line,
                 reopenRet, bueCh, bueRet, stSize, tombVars, outVars, gen, stopPc>>

\* A NewFileNotify record that carries the position the seek arrived at.
SendNewFileTell ==
  /\ pc = "newfile"
  /\ Send(Line(NewFileNotify, <<>>, Tell))
  /\ pc' = "loop"
  /\ UNCHANGED <<cfg, mem, level, pauseLen, fsVars, kVars, trkVars, wVars, file, rbuf, changes, reOpenNotify, offset, line,
                 reopenRet, bueCh, bueRet, stSize, tombVars, gen, stopPc>>

\* The NewFileNotify record, carrying Location.Offset.
SendNewFile ==
  /\ pc = "newfile"
  /\ Send(Line(NewFileNotify, <<>>, 0))
  /\ pc' = "loop"
  /\ UNCHANGED <<cfg, mem, level, pauseLen, fsVars, kVars, trkVars, wVars, file, rbuf, changes, reOpenNotify, offset, line,
                 reopenRet, bueCh, bueRet, stSize, tombVars, gen, stopPc>>

\* The top of the read loop and readLine: Tell keeps the position for a
\* half-line; reader.ReadBytes('\n') returns the line when the buffer holds
\* its terminator, else reads the file once, which brings the terminator,
\* or more bytes without it, or at end-of-file returns the bytes read so far
\* with io.EOF.
readLine ==
  /\ pc \in {"loop", "read"}
  /\ offset' = IF pc = "loop" THEN Tell ELSE offset
  /\ LET buf == rbuf \o Avail IN
     IF HasNL(rbuf)
       THEN /\ line' = Take(rbuf, FirstNL(rbuf))
            /\ rbuf' = Drop(rbuf, FirstNL(rbuf))
            /\ pc' = "sendline"
            /\ UNCHANGED <<file, staleBuf>>
       ELSE IF Avail # <<>>
         THEN /\ file' = [file EXCEPT !.pos = @ + Len(Avail)]
              /\ staleBuf' = ((rbuf # <<>> /\ staleBuf) \/ (StaleHandle /\ ToldTruncated))
              /\ IF HasNL(buf)
                   THEN /\ line' = Take(buf, FirstNL(buf))
                        /\ rbuf' = Drop(buf, FirstNL(buf))
                        /\ pc' = "sendline"
                   ELSE /\ rbuf' = buf
                        /\ pc' = "read"
                        /\ UNCHANGED line
         ELSE /\ line' = rbuf
              /\ rbuf' = <<>>
              /\ pc' = "eof"
              /\ UNCHANGED <<file, staleBuf>>
  /\ UNCHANGED <<cfg, mem, level, pauseLen, fsVars, kVars, trkVars, wVars, changes, reOpenNotify,
                 reopenRet, bueCh, bueRet, stSize, tombVars, out, closeCount, lateSend, gen, stopPc>>

\* LeakyBucket: the level after the leak of e units of elapsed time.
Leak(l, e) == Max(l - e, 0)

\* LeakyBucket.Pour(n) on a bucket of size c at level l after e units of
\* elapsed time: whether the amount fits, and the level the bucket is left
\* at, the rejected amount not retained.
Fits(l, c, e, n) == Leak(l, e) + n <= c
Poured(l, c, e, n) == IF Fits(l, c, e, n) THEN Leak(l, e) + n ELSE Leak(l, e)

\* Pour on the bucket of Config.RateLimiter.
PourAccepts(e, n) == Fits(level, cfg.RateLimiter, e, n)
Pour(e, n) == level' = Poured(level, cfg.RateLimiter, e, n)

\* sendLine of a line read whole: one NewLineNotify record with the line as
\* read and the position after it, then a Pour of one token when a rate
\* limiter is configured; a rejected Pour starts the cooloff.
sendLine ==
  /\ pc = "sendline"
  /\ Send(Line(NewLineNotify, line, Tell))
  /\ IF cfg.RateLimiter = 0
       THEN pc' = LoopBottom /\ UNCHANGED <<level, pauseLen>>
       ELSE \E e \in 0..level :
              /\ Pour(e, 1)
              /\ IF PourAccepts(e, 1)
                   THEN pc' = LoopBottom /\ UNCHANGED pauseLen
                   ELSE pc' = "cooloff_warn" /\ pauseLen' = Len(Content(file.ino))
  /\ UNCHANGED <<cfg, mem, fsVars, kVars, trkVars, wVars, file, rbuf, changes, reOpenNotify, offset, line,
                 reopenRet, bueCh, bueRet, stSize, tombVars, gen, stopPc>>

\* A seek that steps back by the length of the partial line from the offset
\* where that line starts, instead of to that offset.
SeekBeforeLine == Max(offset - Len(line), 0)

\* The position seekTo moves to at end-of-file after a partial line.
PartialSeek == offset

\* A tailFileSync that returns at io.EOF without Follow, whatever it read.
TailEOFDropsLast ==
  /\ pc = "eof"
  /\ IF ~cfg.Follow
       THEN /\ pc' = "close"
            /\ UNCHANGED <<file, rbuf>>
       ELSE /\ pc' = IF changes # 0 THEN "wait" ELSE "ce_stat"
            /\ IF line # <<>>
                 THEN file' = [file EXCEPT !.pos = offset] /\ rbuf' = <<>>
                 ELSE UNCHANGED <<file, rbuf>>
  /\ UNCHANGED <<cfg, mem, level, pauseLen, fsVars, kVars, trkVars, wVars, changes, reOpenNotify, offset, line,
                 reopenRet, bueCh, bueRet, stSize, tombVars, outVars, gen, stopPc>>

\* A tailFileSync that goes to wait at io.EOF without seeking back.
TailEOFNoSeek ==
  /\ pc = "eof"
  /\ pc' = IF ~cfg.Follow THEN (IF line # <<>> THEN "sendlast" ELSE "close")
           ELSE IF changes # 0 THEN "wait" ELSE "ce_stat"
  /\ UNCHANGED <<cfg, mem, level, pauseLen, fsVars, kVars, trkVars, wVars, file, rbuf, changes, reOpenNotify, offset, line,
                 reopenRet, bueCh, bueRet, stSize, tombVars, outVars, gen, stopPc>>

\* io.EOF: without Follow the partial line is sent and the engine returns;
\* with Follow the file is re-seeked to the start of a partial line.
TailEOF ==
  /\ pc = "eof"
  /\ IF ~cfg.Follow
       THEN /\ pc' = IF line # <<>> THEN "sendlast" ELSE "close"
            /\ UNCHANGED <<file, rbuf>>
       ELSE /\ pc' = IF changes # 0 THEN "wait" ELSE "ce_stat"
            /\ IF line # <<>>
                 THEN file' = [file EXCEPT !.pos = PartialSeek] /\ rbuf' = <<>>
                 ELSE UNCHANGED <<file, rbuf>>
  /\ UNCHANGED <<cfg, mem, level, pauseLen, fsVars, kVars, trkVars, wVars, changes, reOpenNotify, offset, line,
                 reopenRet, bueCh, bueRet, stSize, tombVars, outVars, gen, stopPc>>

\* sendLine of the trailing partial line when Follow is off; what Pour
\* answers is not looked at.
SendLast ==
  /\ pc = "sendlast"
  /\ Send(Line(NewLineNotify, line, Tell))
  /\ IF cfg.RateLimiter = 0 THEN UNCHANGED level ELSE \E e \in 0..level : Pour(e, 1)
  /\ pc' = "close"
  /\ UNCHANGED <<cfg, mem, pauseLen, fsVars, kVars, trkVars, wVars, file, rbuf, changes, reOpenNotify, offset, line,
                 reopenRet, bueCh, bueRet, stSize, tombVars, gen, stopPc>>

\* The text of the record sent when the rate limit is reached.
CooloffMsg == <<"Too much log activity; waiting a second before resuming tailing">>

\* The pcs of the cooloff: the warning to send, the pause, the pause over.
Cooloff == {"cooloff_warn", "cooloff", "cooloff_ready"}

\* The cooloff: the warning record, with the message as Text and Err, the
\* offset taken before the line was read and the zero NotifyType.
CooloffWarn ==
  /\ pc = "cooloff_warn"
  /\ Send([Line(NewLineNotify, CooloffMsg, offset) EXCEPT !.err = TRUE])
  /\ pc' = "cooloff"
  /\ UNCHANGED <<cfg, mem, level, pauseLen, fsVars, kVars, trkVars, wVars, file, rbuf, changes, reOpenNotify, offset, line,
                 reopenRet, bueCh, bueRet, stSize, tombVars, gen, stopPc>>

\* time.After(time.Second) fires.
TimerFires ==
  /\ pc = "cooloff"
  /\ pc' = "cooloff_ready"
  /\ UNCHANGED <<cfg, mem, level, pauseLen, fsVars, kVars, trkVars, wVars, file, rbuf, changes, reOpenNotify, offset, line,
                 reopenRet, bueCh, bueRet, stSize, tombVars, outVars, gen, stopPc>>

\* A cooloff that goes back to the read loop where it was.
CooloffResumes ==
  /\ pc = "cooloff_ready"
  /\ pc' = LoopBottom
  /\ UNCHANGED <<cfg, mem, level, pauseLen, fsVars, kVars, trkVars, wVars, file, rbuf, changes, reOpenNotify, offset, line,
                 reopenRet, bueCh, bueRet, stSize, tombVars, outVars, gen, stopPc>>

\* A cooloff that seeks to the start of the file.
CooloffRewinds ==
  /\ pc = "cooloff_ready"
  /\ file' = [file EXCEPT !.pos = 0]
  /\ rbuf' = <<>>
  /\ pc' = LoopBottom
  /\ UNCHANGED <<cfg, mem, level, pauseLen, fsVars, kVars, trkVars, wVars, changes, reOpenNotify, offset, line,
                 reopenRet, bueCh, bueRet, stSize, tombVars, outVars, gen, stopPc>>

\* The cooloff's select takes the timer: seekEnd moves to the end of the
\* file and resets the reader, and the loop goes on from its bottom.
CooloffAfter ==
  /\ pc = "cooloff_ready"
  /\ file' = [file EXCEPT !.pos = Len(Content(file.ino))]
  /\ rbuf' = <<>>
  /\ pc' = LoopBottom
  /\ UNCHANGED <<cfg, mem, level, pauseLen, fsVars, kVars, trkVars, wVars, changes, reOpenNotify, offset, line,
                 reopenRet, bueCh, bueRet, stSize, tombVars, outVars, gen, stopPc>>

\* The cooloff's select takes Dying: tailFileSync returns.
CooloffDying ==
  /\ pc \in {"cooloff", "cooloff_ready"} /\ dying
  /\ pc' = "close"
  /\ UNCHANGED <<cfg, mem, level, pauseLen, fsVars, kVars, trkVars, wVars, file, rbuf, changes, reOpenNotify, offset, line,
                 reopenRet, bueCh, bueRet, stSize, tombVars, outVars, gen, stopPc>>

\* waitForChanges without a ChangeSet: the open file is stat'ed for
\* ChangeEvents.
WaitStat ==
  /\ pc = "ce_stat"
  /\ stSize' = Len(Content(file.ino))
  /\ pc' = IF cfg.Poll THEN "ce_poll" ELSE "ce_watch"
  /\ UNCHANGED <<cfg, mem, level, pauseLen, fsVars, kVars, trkVars, wVars, file, rbuf, changes, reOpenNotify, offset, line,
                 reopenRet, bueCh, bueRet, tombVars, outVars, gen, stopPc>>

\* InotifyFileWatcher.ChangeEvents: shared.Watch(fw.Filename), which watches
\* the file now at the path or fails when there is none, fw.Size, and the
\* goroutine.
ChangeEventsInotify ==
  /\ pc = "ce_watch"
  /\ watchFlags("file")
  /\ kwFile' = IF path # 0 THEN path ELSE kwFile
  /\ asyncDel' = IF path # 0 THEN asyncDel ELSE asyncDel \cup {Len(changesets) + 1}
  /\ changesets' = Append(changesets, [NewFileChanges EXCEPT !.born = gen])
  /\ watchers' = Append(watchers, NewWatcher("inotify", file.ino, stSize))
  /\ fwSize' = stSize
  /\ changes' = Len(changesets) + 1
  /\ pc' = "wait"
  /\ UNCHANGED <<cfg, mem, level, pauseLen, fsVars, kwDir, evq, file, rbuf, reOpenNotify, offset, line,
                 reopenRet, bueCh, bueRet, stSize, tombVars, outVars, gen, stopPc>>

\* The Ticker records in rs.
Tickers(rs) == {k \in 1..Len(rs) : rs[k].type = TickerNotify}

\* A ticker case that returns to the read loop as the Modified case does.
WaitTickerReturns ==
  /\ pc = "wait" /\ cfg.NotifyInterval # 0
  /\ Cardinality(Tickers(out)) < MaxTicks
  /\ Send(Line(TickerNotify, <<>>, Tell))
  /\ pc' = LoopBottom
  /\ UNCHANGED <<cfg, mem, level, pauseLen, fsVars, kVars, trkVars, wVars, file, rbuf, changes,
                 reOpenNotify, offset, line, reopenRet, bueCh, bueRet, stSize, tombVars,
                 gen, stopPc>>

\* waitForChanges' select: the ticker of NotifyInterval fired. The channel
\* of the zero Ticker made when NotifyInterval is unset is nil and never
\* ready. The record carries what Tell returns, and the select is entered
\* again.
WaitTicker ==
  /\ pc = "wait" /\ cfg.NotifyInterval # 0
  /\ Cardinality(Tickers(out)) < MaxTicks
  /\ Send(Line(TickerNotify, <<>>, Tell))
  /\ UNCHANGED <<cfg, mem, level, pauseLen, fsVars, kVars, trkVars, wVars, engVars, tombVars,
                 gen, stopPc>>

\* waitForChanges' select: Modified.
WaitModified ==
  /\ pc = "wait" /\ changesets[changes].mod
  /\ changesets' = [changesets EXCEPT ![changes].mod = FALSE]
  /\ pc' = LoopBottom
  /\ UNCHANGED <<cfg, mem, level, pauseLen, fsVars, kVars, trkVars, watchers, fwSize, asyncDel, file, rbuf, changes,
                 reOpenNotify, offset, line, reopenRet, bueCh, bueRet, stSize, tombVars, outVars,
                 gen, stopPc>>

\* A tailFileSync that kills the tomb with the ErrStop waitForChanges returns
\* for a deleted file.
WaitDeletedKills ==
  /\ pc = "wait" /\ changesets[changes].del
  /\ changesets' = [changesets EXCEPT ![changes].del = FALSE]
  /\ IF cfg.ReOpen
       THEN reOpenNotify' = "armed" /\ UNCHANGED <<pc, changes, tombVars>>
       ELSE changes' = 0 /\ pc' = "close" /\ Kill("tail: stop at eof") /\ UNCHANGED reOpenNotify
  /\ UNCHANGED <<cfg, mem, level, pauseLen, fsVars, kVars, trkVars, watchers, fwSize, asyncDel, file, rbuf,
                 offset, line, reopenRet, bueCh, bueRet, stSize, outVars, gen, stopPc>>

\* waitForChanges' select: Deleted arms the reopen timer with ReOpen, and
\* stops the engine without it.
WaitDeleted ==
  /\ pc = "wait" /\ changesets[changes].del
  /\ changesets' = [changesets EXCEPT ![changes].del = FALSE]
  /\ IF cfg.ReOpen
       THEN reOpenNotify' = "armed" /\ UNCHANGED <<pc, changes>>
       ELSE changes' = 0 /\ pc' = "close" /\ UNCHANGED reOpenNotify
  /\ UNCHANGED <<cfg, mem, level, pauseLen, fsVars, kVars, trkVars, watchers, fwSize, asyncDel, file, rbuf,
                 offset, line, reopenRet, bueCh, bueRet, stSize, tombVars, outVars, gen, stopPc>>

\* waitForChanges' select: Truncated reopens the file.
WaitTruncated ==
  /\ pc = "wait" /\ changesets[changes].trunc
  /\ changesets' = [changesets EXCEPT ![changes].trunc = FALSE]
  /\ pc' = "open" /\ reopenRet' = "wait"
  /\ UNCHANGED <<cfg, mem, level, pauseLen, fsVars, kVars, trkVars, watchers, fwSize, asyncDel, file, rbuf, changes,
                 reOpenNotify, offset, line, bueCh, bueRet, stSize, tombVars, outVars, gen, stopPc>>

\* waitForChanges' select: the reopen timer fired.
WaitReOpenNotify ==
  /\ pc = "wait" /\ reOpenNotify = "armed"
  /\ reOpenNotify' = "idle"
  /\ changes' = 0
  /\ pc' = "open" /\ reopenRet' = "wait"
  /\ UNCHANGED <<cfg, mem, level, pauseLen, fsVars, kVars, trkVars, wVars, file, rbuf, offset, line,
                 bueCh, bueRet, stSize, tombVars, outVars, gen, stopPc>>

\* A select in waitForChanges without the Dying case: the engine keeps
\* waiting.
WaitIgnoresDying ==
  /\ pc = "wait" /\ dying
  /\ UNCHANGED vars

\* waitForChanges' select: the tomb is dying.
WaitDying ==
  /\ pc = "wait" /\ dying
  /\ pc' = "close"
  /\ UNCHANGED <<cfg, mem, level, pauseLen, fsVars, kVars, trkVars, wVars, file, rbuf, changes, reOpenNotify, offset, line,
                 reopenRet, bueCh, bueRet, stSize, tombVars, outVars, gen, stopPc>>

\* A close() that leaves tail.Lines open.
TailCloseKeepsLines ==
  /\ pc = "close"
  /\ pc' = "done"
  /\ UNCHANGED <<cfg, mem, level, pauseLen, fsVars, kVars, trkVars, wVars, file, rbuf, changes, reOpenNotify, offset, line,
                 reopenRet, bueCh, bueRet, stSize, tombVars, outVars, gen, stopPc>>

\* The deferred tail.close(): close(tail.Lines) and the file.
TailClose ==
  /\ pc = "close"
  /\ closeCount' = closeCount + 1
  /\ pc' = "done"
  /\ UNCHANGED <<cfg, mem, level, pauseLen, fsVars, kVars, trkVars, wVars, file, rbuf, changes, reOpenNotify, offset, line,
                 reopenRet, bueCh, bueRet, stSize, tombVars, out, lateSend, staleBuf, gen, stopPc>>

\* The deferred tail.Done(): the tomb is killed with nil and dead.
TailDone ==
  /\ pc = "done"
  /\ reason' = IF reason = "alive" THEN "nil" ELSE reason
  /\ dying' = TRUE
  /\ dead' = TRUE
  /\ pc' = "dead"
  /\ UNCHANGED <<cfg, mem, level, pauseLen, fsVars, kVars, trkVars, wVars, file, rbuf, changes, reOpenNotify, offset, line,
                 reopenRet, bueCh, bueRet, stSize, outVars, gen, stopPc>>

\* ----------------------------------------------------------- I/O failures
\* The errors file.Seek, reader.ReadBytes and file.Stat can return besides
\* io.EOF.
IoErrors == {"seek error", "read error", "stat error"}

\* What a failing step leaves alone.
IoUnchanged ==
  UNCHANGED <<cfg, mem, level, pauseLen, fsVars, kVars, trkVars, wVars, file, rbuf, changes, reOpenNotify, offset, line,
              reopenRet, bueCh, bueRet, stSize, dead, outVars, gen, stopPc>>

\* tailFileSync: the seek to Location fails.
SeekFails ==
  /\ pc = "seek"
  /\ Kill("seek error")
  /\ pc' = "close"
  /\ IoUnchanged

\* tailFileSync: tail.Tell() at the top of the read loop fails.
TellFails ==
  /\ pc = "loop"
  /\ Kill("seek error")
  /\ pc' = "close"
  /\ IoUnchanged

\* A tailFileSync that records a read error and goes round the read loop
\* again.
ReadRetries ==
  /\ pc \in {"loop", "read"}
  /\ Kill("read error")
  /\ pc' = "loop"
  /\ IoUnchanged

\* tailFileSync: readLine returns an error that is not io.EOF.
ReadFails ==
  /\ pc \in {"loop", "read"}
  /\ Kill("read error")
  /\ pc' = "close"
  /\ IoUnchanged

\* sendLine: tail.Tell() fails; no record is sent, sendLine returns true
\* and tailFileSync returns at the bottom of the loop, or at once after the
\* trailing partial line.
SendLineTellFails ==
  /\ pc \in {"sendline", "sendlast"}
  /\ Kill("seek error")
  /\ pc' = "close"
  /\ IoUnchanged

\* tailFileSync at io.EOF: seekTo the start of the partial line fails.
PartialSeekFails ==
  /\ pc = "eof" /\ cfg.Follow /\ line # <<>>
  /\ Kill("seek error")
  /\ pc' = "close"
  /\ IoUnchanged

\* waitForChanges: tail.file.Stat() fails.
StatFails ==
  /\ pc = "ce_stat"
  /\ Kill("stat error")
  /\ pc' = "close"
  /\ IoUnchanged

\* ------------------------------------------------- ratelimiter, its calls
\* What the calls on a Memory leave alone.
progVars ==
  <<cfg, level, pauseLen, fsVars, kVars, trkVars, wVars, engVars, tombVars, outVars, gen, stopPc>>

\* A SetBucketFor that stores the bucket under every name.
SetBucketForAll(nm, b) ==
  /\ mem' = [mem EXCEPT !.store = [x \in Names |-> b], !.ret = Ret("Set", nm, b, 0, 0, TRUE, "nil"),
                        !.put[nm] = b, !.evicted = @ \ {nm}]
  /\ UNCHANGED progVars

\* Memory.SetBucketFor(name, bucket).
SetBucketFor(nm, b) ==
  /\ mem' = [mem EXCEPT !.store[nm] = b, !.ret = Ret("Set", nm, b, 0, 0, TRUE, "nil"),
                        !.put[nm] = b, !.evicted = @ \ {nm}]
  /\ UNCHANGED progVars

\* Memory.GetBucketFor(name): the bucket stored, or nil and the error
\* "miss".
GetBucketFor(nm) ==
  /\ mem' = [mem EXCEPT !.ret = Ret("Get", nm, mem.store[nm], 0, 0, TRUE,
                                    IF mem.store[nm] = 0 THEN "miss" ELSE "nil")]
  /\ UNCHANGED progVars

\* A Pour that keeps the amount it rejects.
PourKeeps(b, e, n) ==
  /\ mem' = [mem EXCEPT !.fill[b] = Min(Leak(@, e) + n, mem.size[b]),
                        !.ret = Ret("Pour", "", b, e, n, Fits(mem.fill[b], mem.size[b], e, n), "nil")]
  /\ UNCHANGED progVars

\* bucket.Pour(n), e units of time after the last call on the bucket.
BucketPour(b, e, n) ==
  /\ mem' = [mem EXCEPT !.fill[b] = Poured(@, mem.size[b], e, n),
                        !.ret = Ret("Pour", "", b, e, n, Fits(mem.fill[b], mem.size[b], e, n), "nil")]
  /\ UNCHANGED progVars

\* A bucket GarbageCollect evicts: one that sits at its full size.
Eligible(b) == b # 0 /\ mem.fill[b] = mem.size[b]

\* A GarbageCollect that evicts nothing.
GarbageKept ==
  /\ mem' = [mem EXCEPT !.ret = Ret("GC", "", 0, 0, 0, TRUE, "nil")]
  /\ UNCHANGED progVars

\* Memory.GarbageCollect.
GarbageCollect ==
  /\ mem' = [mem EXCEPT !.store = [nm \in Names |-> IF Eligible(mem.store[nm]) THEN 0 ELSE mem.store[nm]],
                        !.ret = Ret("GC", "", 0, 0, 0, TRUE, "nil"),
                        !.evicted = @ \cup {nm \in Names : Eligible(mem.store[nm])}]
  /\ UNCHANGED progVars

\* ------------------------------------------------------------------- Stop
Started == pc \notin {"init", "failed", "fatal"}

\* Stop: tail.Kill(nil).
StopKill ==
  /\ stopPc = "idle" /\ Started
  /\ Kill("nil")
  /\ stopPc' = "waiting"
  /\ UNCHANGED <<cfg, mem, level, pauseLen, fsVars, kVars, trkVars, wVars, engVars, outVars, gen>>

\* Stop: tail.Wait() returns once the tomb is dead.
StopWait ==
  /\ stopPc = "waiting" /\ dead
  /\ stopPc' = "returned"
  /\ UNCHANGED <<cfg, mem, level, pauseLen, fsVars, kVars, trkVars, wVars, engVars, tombVars, outVars, gen>>

\* ------------------------------------------------- PollingFileWatcher
\* BlockUntilExists of the polling watcher: the path is sampled until the
\* file is there, and reopen opens it.
BuePoll ==
  /\ pc = "bue_poll"
  /\ path # 0
  /\ pc' = "open" /\ bueRet' = "nil"
  /\ UNCHANGED <<cfg, mem, level, pauseLen, fsVars, kVars, trkVars, wVars, file, rbuf, changes, reOpenNotify, offset, line,
                 reopenRet, bueCh, stSize, tombVars, outVars, gen, stopPc>>

\* BlockUntilExists of the polling watcher between two samples: the tomb is
\* dying, and reopen returns the cancellation to tailFileSync.
BuePollDying ==
  /\ pc = "bue_poll" /\ dying
  /\ pc' = "close" /\ bueRet' = "dying"
  /\ UNCHANGED <<cfg, mem, level, pauseLen, fsVars, kVars, trkVars, wVars, file, rbuf, changes, reOpenNotify, offset, line,
                 reopenRet, bueCh, stSize, tombVars, outVars, gen, stopPc>>

\* ChangeEvents of the polling watcher: a ChangeSet and the sampling
\* goroutine, which holds the size and the identity of the open file.
ChangeEventsPoll ==
  /\ pc = "ce_poll"
  /\ changesets' = Append(changesets, [NewFileChanges EXCEPT !.born = gen])
  /\ watchers' = Append(watchers, NewWatcher("poll", file.ino, stSize))
  /\ fwSize' = stSize
  /\ changes' = Len(changesets) + 1
  /\ pc' = "wait"
  /\ UNCHANGED <<cfg, mem, level, pauseLen, fsVars, kVars, trkVars, asyncDel, file, rbuf, reOpenNotify, offset, line,
                 reopenRet, bueCh, bueRet, stSize, tombVars, outVars, gen, stopPc>>

\* A classification that tests the modification time before the size.
SampleModifiedFirst(w) ==
  IF path = 0 THEN "deleted"
  ELSE IF path # w.orig THEN "deleted"
  ELSE IF inodes[path].mtime # w.prevMod THEN "modified"
  ELSE IF w.prevSize > 0 /\ Len(Content(path)) < w.prevSize THEN "truncated"
  ELSE "same"

\* What one sample of the path finds, in the order the watcher tests it.
Sample(w) ==
  IF path = 0 THEN "deleted"
  ELSE IF path # w.orig THEN "deleted"
  ELSE IF w.prevSize > 0 /\ Len(Content(path)) < w.prevSize THEN "truncated"
  ELSE IF inodes[path].mtime # w.prevMod THEN "modified"
  ELSE "same"

\* One sample of the sampling goroutine: Deleted and Truncated are signalled
\* once and end the goroutine, which closes its set; Modified is signalled
\* without blocking.
PollSample(i) ==
  /\ watchers[i].kind = "poll" /\ watchers[i].pc = "sample"
  /\ Sample(watchers[i]) # "same"
  /\ LET w == watchers[i]
         r == Sample(w) IN
     IF r = "deleted"
       THEN /\ changesets' = CloseChanges(NotifyDeleted(changesets, i), i)
            /\ watchers' = [watchers EXCEPT ![i].pc = "exit", ![i].ev = r]
       ELSE IF r = "truncated"
         THEN /\ changesets' = CloseChanges(NotifyTruncated(changesets, i), i)
              /\ watchers' = [watchers EXCEPT ![i].pc = "exit", ![i].ev = r]
         ELSE /\ changesets' = NotifyModified(changesets, i)
              /\ watchers' = [watchers EXCEPT ![i].prevSize = Len(Content(path)),
                                              ![i].prevMod = inodes[path].mtime, ![i].ev = r]
  /\ UNCHANGED <<cfg, mem, level, pauseLen, fsVars, kVars, trkVars, fwSize, asyncDel, engVars, tombVars, outVars, gen, stopPc>>

\* The sampling goroutine finds the tomb dying between two samples and
\* returns, closing its set.
PollReturn(i) ==
  /\ watchers[i].kind = "poll" /\ watchers[i].pc = "sample"
  /\ dying
  /\ changesets' = CloseChanges(changesets, i)
  /\ watchers' = [watchers EXCEPT ![i].pc = "exit"]
  /\ UNCHANGED <<cfg, mem, level, pauseLen, fsVars, kVars, trkVars, fwSize, asyncDel, engVars, tombVars, outVars, gen, stopPc>>

\* ------------------------------------------------------------------- Init
Configs ==
  {c \in [Follow : BOOLEAN, ReOpen : BOOLEAN, MustExist : BOOLEAN, Poll : BOOLEAN,
          Location : {"start", "end"}, MaxLineSize : {0}, RateLimiter : {0}, NotifyInterval : {0}] : c.ReOpen => c.Follow}

InitFiles == {<<>>, <<NewInode(<<>>)>>, <<NewInode(<<"a", NL>>)>>}

InitProg(cs, fs) ==
  /\ cfg \in cs
  /\ level = 0 /\ pauseLen = 0
  /\ inodes \in fs
  /\ path = Len(inodes)
  /\ envOps = 0
  /\ kwFile = 0 /\ kwDir = FALSE /\ evq = <<>>
  /\ chans = [p \in Paths |-> 0] /\ done = [p \in Paths |-> 0]
  /\ closedCh = {} /\ closedDone = {} /\ nextCh = 1
  /\ run = RunSelect
  /\ watchers = <<>> /\ changesets = <<>> /\ fwSize = 0 /\ asyncDel = {}
  /\ pc = "init" /\ file = NoFile /\ rbuf = <<>> /\ changes = 0
  /\ reOpenNotify = "idle" /\ offset = 0 /\ line = <<>>
  /\ reopenRet = "first" /\ bueCh = 0 /\ bueRet = "nil" /\ stSize = 0
  /\ dying = FALSE /\ reason = "alive" /\ dead = FALSE
  /\ out = <<>> /\ closeCount = 0 /\ lateSend = FALSE /\ staleBuf = FALSE
  /\ gen = 0 /\ stopPc = "idle"

InitWith(cs, fs) == InitProg(cs, fs) /\ mem = NewMemory

\* Every configuration of the native watcher, on a file that is missing,
\* empty, or holds one line.
RunInit == InitWith({c \in Configs : ~c.Poll}, InitFiles)

\* The configurations that start at the beginning of the file, on a file
\* that is missing or holds one line.
Init ==
  InitWith({c \in Configs : ~c.Poll /\ c.Location = "start"}, {<<>>, <<NewInode(<<"a", NL>>)>>})

\* ------------------------------------------------------------------- Next
EnvNext ==
  \/ \E c \in Chunks : EnvAppend(c)
  \/ \E m \in 0..MaxFileLen : EnvTruncate(m)
  \/ EnvRemove
  \/ \E c \in {<<>>, <<"b", NL>>} : EnvCreate(c)

\* The steps of the engine that do not wait for Stop.
EngineRun ==
  \/ TailFile \/ TailStart \/ ReopenOpen
  \/ TailSeek \/ SendNewFile \/ readLine \/ sendLine \/ TailEOF \/ SendLast
  \/ WaitStat
  \/ WaitModified \/ WaitDeleted \/ WaitTruncated \/ WaitReOpenNotify
  \/ TailClose \/ TailDone

EngineNext == EngineRun \/ WaitDying

\* The steps of the native watcher and of the tracker that do not wait for
\* Stop.
InotifyRun ==
  \/ BueWatch \/ BueStat \/ BueEvents \/ BueReceive \/ BueClosed
  \/ BueRemoveDone \/ BueRemove
  \/ ChangeEventsInotify
  \/ TrkTakeEvent \/ TrkAbandon
  \/ \E i \in 1..Len(watchers) :
       \/ WatcherEvents(i) \/ WatcherReceive(i) \/ WatcherReturn(i) \/ WatcherHandle(i)
       \/ WatcherRemoveDone(i) \/ WatcherRemove(i)
  \/ \E i \in asyncDel : AsyncNotifyDeleted(i)

InotifyNext == InotifyRun \/ BueDying

StopNext == StopKill \/ StopWait

Next == EnvNext \/ EngineNext \/ InotifyNext \/ StopNext

Spec == Init /\ [][Next]_vars

\* The program left to run, Stop never called.
RunNext == EnvNext \/ EngineRun \/ InotifyRun

RunSpec == RunInit /\ [][RunNext]_vars

\* Follow from the start of an existing file that is only appended to.
AppendInit ==
  InitWith({c \in Configs : c.Follow /\ ~c.ReOpen /\ ~c.Poll /\ c.Location = "start"},
           {<<NewInode(<<>>)>>, <<NewInode(<<"a", NL>>)>>})

AppendProg ==
  \/ TailFile \/ TailStart \/ ReopenOpen \/ TailSeek \/ SendNewFile
  \/ readLine \/ sendLine \/ TailEOF \/ WaitStat \/ ChangeEventsInotify \/ WaitModified
  \/ TrkTakeEvent
  \/ \E i \in 1..Len(watchers) : WatcherEvents(i) \/ WatcherReceive(i) \/ WatcherHandle(i)

AppendNext == (\E c \in Chunks : SmallWrite(c)) \/ AppendProg

AppendSpec == AppendInit /\ [][AppendNext]_vars

\* The file of the tests, "hello\nworld\n", followed from its start or its
\* end with or without a MaxLineSize, and "more\ndata\n" appended to it once.
HelloConfigs ==
  [Follow : {TRUE}, ReOpen : {FALSE}, MustExist : BOOLEAN, Poll : {FALSE},
   Location : {"start", "end"}, MaxLineSize : {0, 3}, RateLimiter : {0}, NotifyInterval : {0}]

HelloInit == InitWith(HelloConfigs, {<<NewInode(Hello)>>})

HelloWrite == Write(MoreData, 1, Len(Hello) + Len(MoreData))

HelloNext == HelloWrite \/ AppendProg

HelloSpec == HelloInit /\ [][HelloNext]_vars

\* Every configuration TailFile can be handed for the native watcher, those
\* with ReOpen and without Follow included.
AnyConfigs ==
  [Follow : BOOLEAN, ReOpen : BOOLEAN, MustExist : BOOLEAN, Poll : {FALSE},
   Location : {"start"}, MaxLineSize : {0}, RateLimiter : {0}, NotifyInterval : {0}]

CtorInit == InitWith(AnyConfigs, {<<>>, <<NewInode(<<"a", NL>>)>>})

CtorSpec == CtorInit /\ [][RunNext]_vars

\* The goroutines of the program; the scheduler runs one that can step.
ProgNext == EngineNext \/ InotifyNext \/ StopNext
FairSpec == Spec /\ WF_vars(ProgNext)

\* Both watchers: the configurations of Init with Poll set or not.
PollInit ==
  InitWith({c \in Configs : c.Location = "start"}, {<<>>, <<NewInode(<<"a", NL>>)>>})

PollNext ==
  \/ BuePoll \/ BuePollDying \/ ChangeEventsPoll
  \/ \E i \in 1..Len(watchers) : PollSample(i) \/ PollReturn(i)

PollSpec == PollInit /\ [][Next \/ PollNext]_vars
PollFairSpec == PollSpec /\ WF_vars(ProgNext \/ PollNext)

\* Follow off, from the start of an existing file that is appended to
\* meanwhile; the engine's goroutine is scheduled.
NoFollowInit ==
  InitWith({c \in Configs : ~c.Follow /\ ~c.Poll /\ c.Location = "start"},
           {<<NewInode(<<>>)>>, <<NewInode(<<"a", NL>>)>>})

NoFollowProg ==
  \/ TailFile \/ TailStart \/ ReopenOpen \/ TailSeek \/ SendNewFile
  \/ readLine \/ sendLine \/ TailEOF \/ SendLast \/ TailClose \/ TailDone

NoFollowNext == (\E c \in Chunks : SmallWrite(c)) \/ NoFollowProg

NoFollowSpec == NoFollowInit /\ [][NoFollowNext]_vars /\ WF_vars(NoFollowProg)

\* Follow with a LeakyBucket of capacity one, from the start of a file that
\* is appended to; Stop may be called and the goroutines are scheduled.
RateInit ==
  InitWith([Follow : {TRUE}, ReOpen : {FALSE}, MustExist : BOOLEAN, Poll : {FALSE},
            Location : {"start"}, MaxLineSize : {0}, RateLimiter : {1}, NotifyInterval : {0}],
           {<<NewInode(<<>>)>>, <<NewInode(<<"a", NL>>)>>})

CooloffNext == CooloffWarn \/ TimerFires \/ CooloffAfter \/ CooloffDying

RateProg ==
  \/ AppendProg \/ CooloffNext
  \/ WaitDying \/ TailClose \/ TailDone
  \/ TrkAbandon
  \/ \E i \in 1..Len(watchers) : WatcherReturn(i) \/ WatcherRemoveDone(i) \/ WatcherRemove(i)
  \/ StopNext

RateNext == (\E c \in Chunks : EnvAppend(c)) \/ RateProg

RateSpec == RateInit /\ [][RateNext]_vars /\ WF_vars(RateProg)

\* A Memory, the buckets of the tests, of one size, whichever, each set
\* under its name, and any calls on them; no engine runs.
MemInit ==
  /\ InitProg({c \in Configs : ~c.Follow /\ ~c.MustExist /\ ~c.Poll /\ c.Location = "start"}, {<<>>})
  /\ mem \in {[NewMemory EXCEPT !.size = [b \in Buckets |-> sz]] : sz \in 1..MaxSize}

MemNext ==
  \/ \E nm \in Names : SetBucketFor(nm, getTestBuckets[nm])
  \/ \E nm \in Names : GetBucketFor(nm)
  \/ \E b \in Buckets, e \in 0..MaxElapsed, n \in 0..MaxPour : BucketPour(b, e, n)
  \/ GarbageCollect

MemSpec == MemInit /\ [][MemNext]_vars

\* The program with a consumer that receives from Lines until it calls Stop:
\* tail.Lines is unbuffered, and a send on it takes place when the consumer
\* receives.
Receiving == stopPc = "idle"

HandOff == Receiving /\ (SendNewFile \/ sendLine \/ SendLast)

ConsumerProg ==
  \/ HandOff
  \/ TailFile \/ TailStart \/ ReopenOpen \/ TailSeek \/ readLine \/ TailEOF \/ WaitStat
  \/ WaitModified \/ WaitDeleted \/ WaitTruncated \/ WaitReOpenNotify \/ WaitDying
  \/ TailClose \/ TailDone
  \/ InotifyNext \/ StopNext

ConsumerNext == EnvNext \/ ConsumerProg

ConsumerSpec == Init /\ [][ConsumerNext]_vars /\ WF_vars(ConsumerProg)

\* The program with I/O that can fail: any seek, read or stat of the engine
\* may return an error; the goroutines are scheduled.
IoNext ==
  \/ SeekFails \/ TellFails \/ ReadFails \/ SendLineTellFails \/ PartialSeekFails
  \/ StatFails
IoSpec == Init /\ [][Next \/ IoNext]_vars /\ WF_vars(ProgNext)

\* The configurations of Init with and without a NotifyInterval.
TickerInit ==
  InitWith({c \in [Follow : BOOLEAN, ReOpen : BOOLEAN, MustExist : BOOLEAN, Poll : {FALSE},
                    Location : {"start"}, MaxLineSize : {0}, RateLimiter : {0},
                    NotifyInterval : {0, 1}] : c.ReOpen => c.Follow},
           {<<>>, <<NewInode(<<"a", NL>>)>>})
TickerSpec == TickerInit /\ [][Next \/ WaitTicker]_vars

\* ----------------------------------------------------------------- claims
\* C1: Tail.Lines is closed exactly once and only when the engine
\* terminates: it is never closed twice, it is closed only by the engine's
\* deferred close on its way out, no record is sent after the close, and an
\* engine that terminated, on whatever path, has closed it.
LinesClosedOnce ==
  /\ closeCount <= 1
  /\ ~lateSend
  /\ (closeCount = 1 => pc \in {"done", "dead"})
  /\ (pc \in {"done", "dead"} => closeCount = 1)

\* The engine terminated after delivering records, by Stop or by a failure of
\* BlockUntilExists.
LinesClosedOnceWitness ==
  /\ pc = "dead" /\ closeCount = 1 /\ out # <<>>
  /\ stopPc = "returned" \/ reason = "Failed to detect creation"

FileOrder ==
  \A i, j \in 1..Len(out) :
    (i < j /\ out[i].type = NewLineNotify /\ out[j].type = NewLineNotify /\ out[i].gen = out[j].gen)
      => out[i].offset <= out[j].offset - Len(out[j].text)

\* Two lines of one open were delivered back to back after the writes of the
\* environment, the second longer than its terminator.
FileOrderWitness ==
  /\ Len(out) >= 3
  /\ out[2].type = NewLineNotify /\ out[3].type = NewLineNotify /\ out[2].gen = out[3].gen
  /\ out[2].offset = out[3].offset - Len(out[3].text)
  /\ Len(out[3].text) > 1
  /\ envOps = MaxEnvOps

\* The texts of the NewLine records of rs, concatenated in order.
RECURSIVE Texts(_)
Texts(rs) ==
  IF rs = <<>> THEN <<>>
  ELSE (IF rs[1].type = NewLineNotify THEN rs[1].text ELSE <<>>) \o Texts(Tail(rs))

\* The whole lines of content c.
WholeLines(c) == Take(c, LastNL(c))

\* What was emitted is, at every moment, a run of whole lines the file
\* starts with: no byte is duplicated or reordered.
EmittedIsPrefix == IsPrefix(Texts(out), WholeLines(Content(1)))

\* C4: once the engine waits for changes and no goroutine of the program
\* has a step left, the texts emitted, concatenated in emission order,
\* reconstruct the whole lines written to the file, line terminators aside.
ContentReconstructed ==
  (pc = "wait" /\ ~ENABLED AppendProg)
    => StripNL(Texts(out)) = StripNL(WholeLines(Content(1)))

\* C5: with Follow, once the engine waits for changes on the file it has
\* open, untruncated and still at Filename, and no goroutine of the program
\* has a step left, the engine has read up to the last line terminator
\* appended to the file.
AppendsEmitted ==
  (cfg.Follow /\ pc = "wait" /\ ~dying /\ file.ino = path /\ file.cuts = {}
     /\ ~ENABLED (EngineNext \/ InotifyNext))
    => Tell >= LastNL(Content(path))

\* The texts of the NewLine records of rs, one element per record.
RECURSIVE LineTexts(_)
LineTexts(rs) ==
  IF rs = <<>> THEN <<>>
  ELSE (IF rs[1].type = NewLineNotify THEN <<rs[1].text>> ELSE <<>>) \o LineTexts(Tail(rs))

\* C6: following "hello\nworld\n" from its start, once the engine waits for
\* changes and nothing was appended, the line records received are exactly
\* "hello" then "world".
ScenarioA ==
  (cfg.Location = "start" /\ pc = "wait" /\ envOps = 0)
    => LineTexts(out) = <<HelloLine, WorldLine>>

\* C7: following "hello\nworld\n" from its end, the line records received
\* are at every moment the first of "more", "data", the lines appended, and
\* nothing of the content present at the start.
ScenarioB ==
  cfg.Location = "end"
    => IsPrefix(LineTexts(out), <<MoreLine, DataLine>>)

\* The texts ts, each without its line terminator.
StripTexts(ts) == [i \in 1..Len(ts) |-> StripNL(ts[i])]

\* Line terminators aside, what is delivered when following from the end is
\* at every moment the first of the lines appended.
EndSkipsContent ==
  cfg.Location = "end"
    => IsPrefix(StripTexts(LineTexts(out)), <<MoreLine, DataLine>>)

\* Stop was not called and no goroutine of the program has a step left.
Settled == stopPc = "idle" /\ ~ENABLED (EngineNext \/ InotifyNext)

\* C8: with ReOpen, once a new file stands at Filename after the tailed one
\* was deleted or renamed away and the program has settled, the engine has
\* that file open, waits for its changes, and has read its lines.
RotationFollowed ==
  (cfg.ReOpen /\ Settled /\ path # 0 /\ Len(inodes) >= 2 /\ gen >= 1)
    => (pc = "wait" /\ file.ino = path /\ Tell >= LastNL(Content(path)))

\* The engine delivered the line of the first file, was notified of its
\* deletion and waits in BlockUntilExists on no channel, while the new file
\* stands at Filename with a line in it and no goroutine has a step left.
RotationStuck ==
  /\ cfg.ReOpen /\ Settled /\ pc = "bue_wait" /\ bueCh = 0
  /\ path = 2 /\ HasNL(Content(path))
  /\ LineTexts(out) = <<<<"a", NL>>>>

\* No line is delivered that was read, a Truncated notification pending, at a
\* position the file was truncated below.
NoStaleRecord == cfg.Follow => \A i \in 1..Len(out) : ~out[i].stale

\* Once the program has settled, the engine does not wait at a position the
\* file was truncated below: it has reopened the file.
TruncationReopened ==
  (cfg.Follow /\ Settled /\ pc = "wait" /\ file.ino = path) => ~StaleHandle

\* The watcher notified the truncation of "a\n" to "a"; "a\n" was appended
\* and the engine delivered, from the position it had before the truncation,
\* the line "\n" at offset 3.
StaleAfterTruncated ==
  /\ cfg.Follow /\ ToldTruncated /\ path # 0 /\ Content(path) = <<"a", "a", NL>>
  /\ out # <<>> /\ out[Len(out)].stale
  /\ out[Len(out)].text = <<NL>> /\ out[Len(out)].offset = 3

\* C9: a truncation is always followed: the engine reopens the truncated
\* file, with or without ReOpen, and delivers no line from a position carried
\* over from before the truncation.
TruncationFollowed == NoStaleRecord /\ TruncationReopened

\* C10: with MaxLineSize = k > 0 no text emitted is longer than k, its line
\* terminator aside.
ScenarioE ==
  cfg.MaxLineSize > 0
    => \A i \in 1..Len(out) :
         out[i].type = NewLineNotify => Len(StripNL(out[i].text)) <= cfg.MaxLineSize

\* Neither the engine nor a watcher has done anything: no file or channel is
\* open, no watch registered, nothing was sent on Tail.Lines nor was it closed,
\* and the tomb is untouched.
NothingStarted ==
  /\ file = NoFile /\ gen = 0 /\ rbuf = <<>>
  /\ watchers = <<>> /\ changesets = <<>> /\ changes = 0
  /\ kwFile = 0 /\ ~kwDir /\ chans = [p \in Paths |-> 0]
  /\ out = <<>> /\ closeCount = 0
  /\ ~dying /\ ~dead /\ reason = "alive" /\ stopPc = "idle"

MissingFileAwaited ==
  /\ ~cfg.MustExist => pc # "failed"
  /\ (~cfg.MustExist /\ gen = 0 /\ stopPc = "idle") => pc \notin {"close", "done", "dead"}
  /\ (~cfg.MustExist /\ gen = 0 /\ stopPc = "returned") => reason = "nil"
  /\ (~cfg.MustExist /\ Settled /\ path # 0) => gen >= 1

\* Without MustExist the engine does not fail or end on its own while the file
\* was never there, and a Stop meanwhile returns nil.
MissingFileWaits ==
  /\ ~cfg.MustExist => pc # "failed"
  /\ (~cfg.MustExist /\ gen = 0 /\ stopPc = "idle") => pc \notin {"close", "done", "dead"}
  /\ (~cfg.MustExist /\ gen = 0 /\ stopPc = "returned") => reason = "nil"

\* The engine started without the file and waits in BlockUntilExists on no
\* channel; the file was created with a line in it, and no goroutine has a
\* step left.
MissingFileStuck ==
  /\ ~cfg.MustExist /\ Settled /\ gen = 0
  /\ pc = "bue_wait" /\ bueCh = 0
  /\ path # 0 /\ HasNL(Content(path))

\* C13: a configuration with ReOpen and without Follow gets no further than
\* TailFile's check: no goroutine is started, no file or watcher opened.
ReOpenNeedsFollow ==
  (cfg.ReOpen /\ ~cfg.Follow) => (pc \in {"init", "fatal"} /\ NothingStarted)

\* TailFile rejected the configuration while the file was there, and the
\* file was written to afterwards.
ReOpenNeedsFollowWitness ==
  /\ cfg.ReOpen /\ ~cfg.Follow /\ pc = "fatal"
  /\ path # 0 /\ envOps = MaxEnvOps

\* C14: an engine that ended for another cause than an error of
\* BlockUntilExists (the file deleted without ReOpen, end-of-file without
\* Follow, Stop at any moment) leaves the nil outcome in the tomb.
GracefulIsNil ==
  (dead /\ bueRet # "closed") => reason = "nil"

\* The engine followed the file without ReOpen, delivered a line, and ended
\* when the file was deleted, Stop never called.
GracefulIsNilWitness ==
  /\ dead /\ cfg.Follow /\ ~cfg.ReOpen /\ stopPc = "idle"
  /\ path = 0 /\ bueRet # "closed" /\ Len(out) >= 2

\* C15: a seek, read or stat of the engine that fails ends the engine at
\* once: the failing step sends nothing and goes to the exit, the error is
\* the recorded cause from then on, no record is sent after it, Lines gets
\* closed and the tomb dead, and Stop returns with that error recorded.
IoFailed == reason \in IoErrors

OneLine(t) == HasNL(t) /\ FirstNL(t) = Len(t)

Finished == pc \in {"close", "done", "dead"}

\* C17: without Follow, on a file that exists, the engine reaches
\* end-of-file with everything the file holds either sent or in the trailing
\* line it just read; it leaves with every byte up to there sent once and in
\* order, whole lines one per record and the non-empty trailing partial line
\* as the last record; it ends with Lines closed once and the nil outcome,
\* without ever waiting for changes or making a ChangeSet or a watcher.
NoFollowEnds ==
  /\ [](/\ changes = 0 /\ changesets = <<>> /\ watchers = <<>>
        /\ pc \notin {"ce_stat", "ce_watch", "ce_poll", "wait"})
  /\ [][(pc # "eof" /\ pc' = "eof")
         => (Texts(out) \o line' = Content(1)' /\ offset' = Len(Texts(out)))]_vars
  /\ [](Finished =>
         /\ IsPrefix(Texts(out), Content(1))
         /\ Len(Texts(out)) = offset + Len(line)
         /\ \A i \in 1..Len(out) :
              (out[i].type = NewLineNotify /\ (i < Len(out) \/ line = <<>>)) => OneLine(out[i].text)
         /\ line # <<>> => out[Len(out)] = Line(NewLineNotify, line, offset + Len(line)))
  /\ [](pc = "dead" => (reason = "nil" /\ closeCount = 1))
  /\ <>(pc = "dead")

\* The engine ended after a whole line and a trailing partial line.
NoFollowEndsWitness ==
  /\ pc = "dead" /\ ~cfg.Follow /\ reason = "nil" /\ closeCount = 1
  /\ Len(out) >= 3 /\ OneLine(out[2].text)
  /\ out[Len(out)].type = NewLineNotify /\ ~HasNL(out[Len(out)].text)

\* The engine is at a send on tail.Lines.
AtSend == pc \in {"newfile", "sendline", "sendlast"}

\* C18: once the consumer has called Stop and receives no more, the engine
\* ends and Stop returns, wherever the engine was, at a send on Lines
\* included.
StopUnblocks ==
  (stopPc = "waiting") ~> (pc = "dead" /\ stopPc = "returned")

\* Away from a send, an engine and watchers that have no step left after
\* Stop was called have ended.
StopUnblocksWaits ==
  (stopPc # "idle" /\ ~ENABLED ConsumerProg) => (AtSend \/ (pc = "dead" /\ stopPc = "returned"))

\* The engine is at the send of a line it read, the tomb has been dying
\* since the consumer called Stop, and no goroutine has a step left.
StopBlockedOnSend ==
  /\ stopPc = "waiting" /\ dying /\ ~dead
  /\ pc = "sendline" /\ closeCount = 0
  /\ ~ENABLED ConsumerProg

\* The warning record of a cooloff entered now.
Warning == [Line(NewLineNotify, CooloffMsg, offset) EXCEPT !.err = TRUE]

IsLineRec(i) == out[i].type = NewLineNotify /\ ~out[i].err

\* The whole lines the file held when the last Pour was rejected.
BeforePause == Take(Content(1), LastNL(Take(Content(1), pauseLen)))

\* C20: the cooloff loses nothing that was in the file when its pause
\* began: when the engine resumes after the pause it is not moved past a
\* whole line the file held then and that it had not sent.
LossOnlyInPause ==
  [][(pc \in Cooloff /\ pc' = "loop") => (Tell >= Len(BeforePause) \/ Tell' <= Tell)]_vars

\* C20 as the code has it: the cooloff loses what lies between the rejected
\* line and the end of the file at the end of the pause, the lines the
\* file held before the pause and not yet sent included; outside a cooloff
\* nothing is lost: every record of a line holds the bytes of the file that
\* end at its offset, no byte is sent twice, the first line sent starts the
\* file, and two lines sent with no warning between them are adjacent in
\* the file.
LossAtCooloff ==
  /\ [][(pc \in Cooloff /\ pc' = "loop")
         => (Tell' = Len(Content(1)) /\ Tell' >= pauseLen /\ Tell' >= Tell)]_vars
  /\ [](\A i \in 1..Len(out) : IsLineRec(i) =>
           /\ out[i].offset >= Len(out[i].text)
           /\ out[i].text = SubSeq(Content(1), out[i].offset - Len(out[i].text) + 1, out[i].offset))
  /\ [](\A i, j \in 1..Len(out) : (i < j /\ IsLineRec(i) /\ IsLineRec(j))
           => out[i].offset <= out[j].offset - Len(out[j].text))
  /\ []((Len(out) >= 2 /\ IsLineRec(2)) => out[2].offset = Len(out[2].text))
  /\ [](\A i \in 1..(Len(out) - 1) : (IsLineRec(i) /\ IsLineRec(i + 1))
           => out[i].offset = out[i + 1].offset - Len(out[i + 1].text))

\* The engine resumed after a cooloff and waits at the end of the file,
\* past a whole line that the file held when the Pour was rejected and that
\* was never sent.
ResumedPastBacklog ==
  /\ pc = "wait" /\ stopPc = "idle" /\ Len(out) >= 4
  /\ out[Len(out)].err /\ IsLineRec(Len(out) - 1)
  /\ out[Len(out) - 1].offset < Len(BeforePause)
  /\ Tell = Len(Content(1))

\* An error is the recorded cause.
Errored == reason \notin {"alive", "nil"}

\* C21: the cause of the end is written once: whatever cause the tomb has
\* recorded, nil or an error, no later Kill replaces it.
CauseWrittenOnce ==
  [][reason # "alive" => reason' = reason]_vars

\* C21 as the tomb has it: an error, once recorded, is never replaced, by a
\* Stop that arrives after it or by another error; the nil of a Stop is
\* kept unless an error arises before the engine ends, which then replaces
\* it; the engine ends on every path with a cause recorded, which no Kill
\* changes afterwards, and Stop returns with that cause recorded.
ErrorWrittenOnce ==
  /\ [][Errored => reason' = reason]_vars
  /\ [][reason = "nil" => (reason' # "alive" /\ (reason' # "nil" => ~dead))]_vars
  /\ [][dead => (reason' = reason /\ dead')]_vars
  /\ [](pc = "dead" <=> dead)
  /\ [](dead => (dying /\ reason # "alive"))
  /\ [](stopPc = "returned" => dead)

\* A seek failed and Stop was called, in either order, after records were
\* delivered; Stop returned with the error as the recorded cause.
ErrorWrittenOnceWitness ==
  /\ dead /\ stopPc = "returned" /\ reason = "seek error" /\ Len(out) >= 2

\* C22: the level of a bucket stays between empty and its size; a Pour
\* leaks first, never below empty, then answers whether the amount fits:
\* if it does the level is the leaked level plus the amount, and if it does
\* not the level is the leaked level, the amount not added.
PourBounded ==
  /\ [](\A b \in Buckets : mem.fill[b] >= 0 /\ mem.fill[b] <= mem.size[b])
  /\ [][(mem'.ret.op = "Pour" /\ mem' # mem) =>
         LET r == mem'.ret
             leaked == IF mem.fill[r.b] > r.e THEN mem.fill[r.b] - r.e ELSE 0
         IN /\ leaked >= 0
            /\ r.ok <=> (leaked + r.n <= mem.size[r.b])
            /\ r.ok => mem'.fill[r.b] = leaked + r.n
            /\ ~r.ok => mem'.fill[r.b] = leaked
            /\ \A b \in Buckets \ {r.b} : mem'.fill[b] = mem.fill[b]
            /\ mem'.store = mem.store /\ mem'.size = mem.size]_vars

\* A bucket of size two holds one token after a leak, and the Pour of two
\* more was rejected.
PourBoundedWitness ==
  /\ mem.ret.op = "Pour" /\ ~mem.ret.ok /\ mem.ret.n = 2 /\ mem.ret.e = 1
  /\ mem.size[mem.ret.b] = 2 /\ mem.fill[mem.ret.b] = 1

SetGetRoundTrip ==
  /\ []((mem.ret.op = "Get" /\ mem.put[mem.ret.name] # 0 /\ mem.ret.name \notin mem.evicted)
          => (mem.ret.err = "nil" /\ mem.ret.b # 0 /\ mem.ret.b = mem.put[mem.ret.name]))
  /\ [][mem'.ret.op = "Set" =>
         /\ mem'.store[mem'.ret.name] = mem'.ret.b
         /\ \A nm \in Names \ {mem'.ret.name} : mem'.store[nm] = mem.store[nm]]_vars
  /\ [][mem'.ret.op \in {"Get", "Pour"} => mem'.store = mem.store]_vars

\* Three names hold three different buckets, and GetBucketFor of one of
\* them returned its own.
SetGetRoundTripWitness ==
  /\ mem.ret.op = "Get" /\ mem.ret.err = "nil"
  /\ mem.ret.b = mem.put[mem.ret.name]
  /\ mem.evicted = {}
  /\ \A x, y \in Names : (x # y) => (mem.put[x] # 0 /\ mem.put[x] # mem.put[y])

\* C25: whenever the engine selects in waitForChanges, the ChangeSet it
\* selects on was made after the file it now holds was opened: a reopen,
\* for a truncation as for a deletion, leaves no ChangeSet behind.
ReopenDiscardsChanges == (pc = "wait") => changesets[changes].born = gen

\* The reopen after the timer of a Deleted signal does discard the set: from
\* that timer to the next ChangeEvents the engine holds no ChangeSet.
DeletedReopenDiscards ==
  [][(pc = "wait" /\ reOpenNotify = "armed" /\ reOpenNotify' = "idle") => changes' = 0]_vars

\* After the reopen for a truncation the engine waits on the ChangeSet that
\* announced the truncation.
TruncatedSetKept ==
  /\ pc = "wait" /\ changes # 0 /\ changesets[changes].born < gen
  /\ reOpenNotify = "idle"

\* C26: with ReOpen, from the Deleted signal that arms the reopen timer
\* until that timer fires, an engine that was not stopped stays in the wait:
\* it neither reopens the path, nor reads from the old handle, nor ends.
ReopenGatedByTimer == (reOpenNotify = "armed" /\ ~dying) => pc = "wait"

\* The timer is armed only by a Deleted signal received with ReOpen, and
\* when it fires the engine drops the ChangeSet and reopens, once.
TimerReopensOnce ==
  /\ [][(reOpenNotify = "idle" /\ reOpenNotify' = "armed")
          => (cfg.ReOpen /\ pc = "wait" /\ changesets[changes].del /\ pc' = "wait")]_vars
  /\ [][(reOpenNotify = "armed" /\ reOpenNotify' = "idle")
          => (pc = "wait" /\ pc' = "open" /\ changes' = 0)]_vars

\* With the timer armed and not fired, the engine is reopening the path for
\* a Truncated signal that was pending with the Deleted one.
ReopenedBeforeTimer == reOpenNotify = "armed" /\ ~dying /\ pc = "open"

\* C27: a ChangeSet is given Deleted at most once and Truncated at most
\* once, it is closed at most once, the watcher that puts a Deleted or a
\* Truncated signal in its set closes the set as it does, and a closed set
\* takes no further signal.
TerminalSignalsOnce ==
  /\ [](\A i \in DOMAIN changesets :
          /\ changesets[i].sent.del <= 1 /\ changesets[i].sent.trunc <= 1
          /\ changesets[i].closes <= 1)
  /\ [][\A i \in DOMAIN changesets :
          /\ (watchers[i].pc = "handle" /\ watchers'[i].pc # "handle"
                /\ changesets'[i].sent # changesets[i].sent) => changesets'[i].closed
          /\ changesets[i].closed =>
                /\ changesets'[i].closed /\ changesets'[i].sent = changesets[i].sent
                /\ \A sig \in {"mod", "del", "trunc"} : changesets'[i][sig] => changesets[i][sig]]_vars

\* What holds of every ChangeSet of the native watcher: Deleted is put in it
\* at most once, the watcher that signals Deleted closes the set in the same
\* return, the set is closed at most once and only by its watcher returning,
\* and a closed set takes no further signal.
DeletedSignalOnce ==
  /\ [](\A i \in DOMAIN changesets :
          /\ changesets[i].sent.del <= 1 /\ changesets[i].closes <= 1
          /\ changesets[i].closed <=> changesets[i].closes = 1
          /\ changesets[i].closed => watchers[i].pc \in {"rm1", "rm2", "exit"})
  /\ [][\A i \in DOMAIN changesets :
          /\ (watchers[i].pc = "handle" /\ watchers'[i].pc # "handle"
                /\ changesets'[i].sent.del # changesets[i].sent.del) => changesets'[i].closed
          /\ changesets[i].closed =>
                /\ changesets'[i].closed /\ changesets'[i].sent = changesets[i].sent
                /\ \A sig \in {"mod", "del", "trunc"} : changesets'[i][sig] => changesets[i][sig]]_vars

\* One ChangeSet was given Truncated twice and is still open, its watcher
\* back at its select.
TruncatedTwice ==
  \E i \in DOMAIN changesets :
    /\ changesets[i].sent.trunc = 2 /\ ~changesets[i].closed
    /\ watchers[i].pc = "select"

\* The watcher goroutines that have not begun to return.
Active == {i \in DOMAIN watchers : watchers[i].pc \in {"events", "select", "handle"}}

\* C28: an engine has at most one ChangeSet open and one watcher goroutine
\* running at a time, it asks for a ChangeSet only when it holds none, and
\* once it has ended every watcher goroutine ends and no watch is left.
OneChangeSet ==
  /\ [](Cardinality(Active) <= 1)
  /\ [](Cardinality({i \in DOMAIN changesets : ~changesets[i].closed}) <= 1)
  /\ [][Len(changesets') > Len(changesets) => (changes = 0 /\ changes' = Len(changesets'))]_vars
  /\ dead ~> (\A i \in DOMAIN watchers : watchers[i].pc = "exit")
  /\ dead ~> (kwFile = 0 /\ chans["file"] = 0)

\* What holds: a ChangeSet is asked for only by an engine that holds none,
\* and once the engine has ended every watcher goroutine returns, closes its
\* set and has its watch of Filename removed.
WatchersEndWithEngine ==
  /\ [][Len(changesets') > Len(changesets) => (changes = 0 /\ changes' = Len(changesets'))]_vars
  /\ dead ~> (\A i \in DOMAIN watchers : watchers[i].pc = "exit" /\ changesets[i].closed)
  /\ dead ~> (kwFile = 0 /\ chans["file"] = 0)

\* Two watcher goroutines of one engine are running, both at their select on
\* the events of Filename.
TwoWatchers ==
  \E i, j \in Active : i # j /\ watchers[i].pc = "select" /\ watchers[j].pc = "select"

\* The tracker goroutine is in sendEvent's select, delivering an event of
\* Filename.
Delivering == run.pc = "send"

Removing == {i \in DOMAIN watchers : watchers[i].pc \in {"rm1", "rm2", "exit"}}

\* C30: a Watch of Filename that follows a RemoveWatch of it, however the two
\* interleave, leaves the path with an open events channel and an open done
\* channel that are not those of the subscription removed, and no watcher
\* goroutine waits on a missing channel or on one a removal has closed.
WatchAfterRemoveIsFresh ==
  /\ [][Len(changesets') > Len(changesets) =>
          /\ chans'["file"] # 0 /\ chans'["file"] \notin closedCh'
          /\ done'["file"] # 0 /\ done'["file"] \notin closedDone'
          /\ \A i \in Removing : watchers[i].ch # chans'["file"]]_vars
  /\ [](\A j \in DOMAIN watchers :
          watchers[j].pc = "select" => (watchers[j].ch # 0 /\ watchers[j].ch \notin closedCh))

\* What holds: a Watch processed when the path has no channel, which is the
\* case once the tracker goroutine has handled the removal, makes a new
\* events channel and a new done channel, both open and never used before.
WatchOfFreePathIsFresh ==
  [][(Len(changesets') > Len(changesets) /\ chans["file"] = 0) =>
       /\ chans'["file"] = nextCh /\ done'["file"] = nextCh /\ nextCh' > nextCh
       /\ nextCh \notin closedCh' \cup closedDone'
       /\ \A i \in DOMAIN watchers : watchers[i].ch # nextCh]_vars

\* A Watch was processed between the two halves of a RemoveWatch: the
\* goroutine of the new ChangeSet selects on the channel of the old
\* subscription, which the old removal has closed, and the path has no done
\* channel.
OldRemovalClosedNewChannel ==
  /\ ~dying /\ changes # 0 /\ pc = "wait"
  /\ watchers[changes].pc = "select" /\ watchers[changes].ch \in closedCh
  /\ \E i \in Removing : i # changes /\ watchers[i].ch = watchers[changes].ch
  /\ done["file"] = 0

\* The step in which a Watch of path p is processed: ChangeEvents for the
\* file, BlockUntilExists for its directory.
WatchStep(p) ==
  IF p = "file" THEN pc = "ce_watch" /\ pc' = "wait"
                ELSE pc = "bue_watch" /\ pc' = "bue_stat"

\* C31: a Watch of a path that has an events channel leaves the channels of
\* every path as they were: the same events channel and done channel, none
\* made and none closed, and a goroutine selecting on the channel still
\* selects on the channel the path has.
WatchIdempotent ==
  [][\A p \in Paths : (WatchStep(p) /\ chans[p] # 0) =>
       /\ chans' = chans /\ done' = done /\ nextCh' = nextCh
       /\ closedCh' = closedCh /\ closedDone' = closedDone
       /\ \A i \in DOMAIN watchers : watchers'[i] = watchers[i]]_vars

\* The file was watched a second time while the goroutine of the first
\* ChangeSet selects on its channel: the path has that channel still, open,
\* and its done channel.
WatchIdempotentWitness ==
  /\ Len(watchers) = 2 /\ pc = "wait" /\ watchers[2].pc = "events"
  /\ watchers[1].pc = "select" /\ watchers[1].ch = chans["file"]
  /\ chans["file"] # 0 /\ chans["file"] \notin closedCh
  /\ done["file"] = chans["file"] /\ done["file"] \notin closedDone
  /\ nextCh = chans["file"] + 1

\* BlockUntilExists is waiting for the file: the select of the native
\* watcher, the sampling loop of the polling one.
BueWaiting == pc \in {"bue_wait", "bue_poll"}

InBue == pc \in {"bue_watch", "bue_stat", "bue_events", "bue_wait"}

\* C33: the native BlockUntilExists never misses a creation: once the file
\* is at Filename and the program has settled, BlockUntilExists has
\* returned, and it does not return an error with the file there.
BueSeesCreation ==
  /\ (Settled /\ ~cfg.Poll /\ path # 0) => ~InBue
  /\ (pc = "bue_rm1" /\ path # 0) => bueRet # "closed"

\* What holds: a file created before the existence check, before or after
\* the directory watch was registered, is found by the check, and
\* BlockUntilExists returns nil.
CreationBeforeCheckSeen ==
  [][(pc = "bue_stat" /\ pc' # "bue_stat") =>
       IF path # 0 THEN pc' = "bue_rm1" /\ bueRet' = "nil"
                   ELSE pc' = "bue_events"]_vars

\* The file was created after the existence check: BlockUntilExists waits
\* on the missing channel of Filename, the create event of the directory
\* was taken and dropped, and nothing is left to wake it.
CreationMissed ==
  /\ pc = "bue_wait" /\ bueCh = 0 /\ path # 0 /\ Settled
  /\ kwDir /\ evq = <<>> /\ run.pc = "select"
  /\ envOps = 1 /\ gen = 0

\* Watcher i is a sampling goroutine that takes a sample in this step.
Samples(i) ==
  /\ watchers[i].kind = "poll" /\ watchers[i].pc = "sample"
  /\ watchers'[i] # watchers[i]
  /\ watchers'[i] # [watchers[i] EXCEPT !.pc = "exit"]

SeekOnFirstOpenOnly ==
  /\ [](pc = "seek" => (gen = 1 /\ out = <<>>))
  /\ [][(pc' = "newfile" /\ pc # "newfile") =>
          (pc = "seek" /\ gen = 1 /\ file'.pos = SeekPos /\ rbuf' = <<>>)]_vars
  /\ [][(gen' > gen /\ gen >= 1) =>
          /\ file' = [ino |-> path, pos |-> 0, cuts |-> {}] /\ rbuf' = <<>>
          /\ pc' \in {"loop", "close"}]_vars
  /\ [](out # <<>> => gen >= 1)

\* Location is the end of the file: the line of the first file was skipped,
\* and after the rotation the line of the new file was delivered from
\* offset 0.
SeekOnFirstOpenOnlyWitness ==
  /\ cfg.Location = "end" /\ gen = 2 /\ Len(inodes) = 2
  /\ Content(1) = <<"a", NL>> /\ Content(2) = <<"b", NL>>
  /\ LineTexts(out) = <<<<"b", NL>>>>
  /\ out[Len(out)].offset = 2 /\ out[Len(out)].gen = 2

\* C37: a record of type Ticker is put on Lines only with a NotifyInterval
\* and only by the engine in its wait; the step that emits it appends that
\* one record, carrying file position less buffered bytes, and leaves the
\* engine in the wait with its file, reader, offset, ChangeSet, pending
\* signals, reopen timer and tomb as they were and nothing opened or closed.
\* Without a NotifyInterval no Ticker record is ever emitted.
TickerIsHeartbeat ==
  /\ [][(Tickers(out') # Tickers(out)) =>
          /\ cfg.NotifyInterval # 0 /\ pc = "wait" /\ pc' = "wait"
          /\ out' = Append(out, [type |-> TickerNotify, text |-> <<>>,
                                  offset |-> file.pos - Len(rbuf), err |-> FALSE,
                                  gen |-> gen, stale |-> FALSE])
          /\ UNCHANGED <<file, rbuf, offset, line, changes, changesets, watchers,
                         reOpenNotify, tombVars, closeCount, gen, fsVars>>]_vars
  /\ [](cfg.NotifyInterval = 0 => Tickers(out) = {})

\* A heartbeat with the offset after the line read was the last record, and
\* the engine is in its wait with a Truncated signal still pending.
TickerIsHeartbeatWitness ==
  /\ out # <<>> /\ out[Len(out)].type = TickerNotify /\ out[Len(out)].offset = 2
  /\ Cardinality(Tickers(out)) = 2
  /\ pc = "wait" /\ changesets[changes].trunc /\ ~dying

\* The step in which ChangeEvents' Watch of the file fails: the file is
\* missing when the registration is made.
FailedWatch == pc = "ce_watch" /\ pc' = "wait" /\ path = 0

\* C38: a Watch of the file that fails leaves the tracker's tables as they
\* were before the call: no events channel and no done channel were made
\* for the path.
FailedWatchLeavesTable ==
  [][FailedWatch => (chans' = chans /\ done' = done /\ nextCh' = nextCh)]_vars

\* The failure is reported to the caller, whose ChangeSet gets a Deleted,
\* no native watch is made, and the tracker goroutine is back at its select
\* with nothing closed.
FailedWatchNotFatal ==
  [][FailedWatch =>
       /\ Len(changesets) + 1 \in asyncDel' /\ kwFile' = kwFile
       /\ run' = run /\ run.pc = "select"
       /\ closedCh' = closedCh /\ closedDone' = closedDone]_vars

\* The tracker has channels for the file, which has no native watch and
\* had none since the channels were made.
FailedWatchLeftChannels ==
  /\ chans["file"] # 0 /\ done["file"] # 0 /\ kwFile = 0 /\ path = 0
  /\ chans["file"] \notin closedCh

\* C39: whenever tail.file is set, tail.reader is set, so that a Tell
\* called at that moment by another goroutine has a reader to ask for its
\* buffered bytes.
TellHasReader == file.ino # 0 => ReaderSet

\* Without MustExist too: the first reopen opened the file and openReader
\* was not called yet.
TellBeforeOpenReader ==
  /\ ~cfg.MustExist /\ pc = "seek" /\ gen = 1
  /\ file.ino # 0 /\ ~ReaderSet /\ ~dying

====
